---- MODULE Spec2Model ----
(***************************************************************************)
(* Discovery and reconciliation engine of the PTB runner                   *)
(* (src/src/lib/kiosk-discovery.ts and its sibling revisions               *)
(* src/unnamed/part_004, src/unnamed/part_006).                            *)
(*                                                                         *)
(* Each asynchronous function is a sequence of steps, one per await        *)
(* point.  The remote service is the environment: it answers a request     *)
(* with the page or object it holds, or fails it.                          *)
(***************************************************************************)
EXTENDS Integers, Sequences, FiniteSets, TLC

VARIABLES
    entry,           \* the function under execution
    build,           \* revision of kiosk-discovery: "lib", "p004" or "p006"
    pc,              \* position inside the running function
    attempts,        \* withRetry: parameter attempts
    delayMs,         \* withRetry: parameter delayMs
    i,               \* withRetry: loop index
    lastError,       \* withRetry: local lastError
    lastThrown,      \* the value the latest failed invocation threw
    opCalls,         \* number of invocations of the wrapped operation
    delays,          \* the waits of the withRetry call, in order
    tries,           \* invocations made by the withRetry call in progress,
                     \* or by the latest one that threw
    outcome,         \* "running", "returned" or "threw"
    thrown,          \* the value the running function threw
    retVal,          \* withRetry: the value returned
    pages,           \* remote: cursor -> [data, next] of the paginated query
    loop,            \* the pagination loop that is running ("" when none)
    cursor,          \* pagination loop: local cursor (0 is null)
    paginationCount, \* pagination loop: local paginationCount
    allObjects,      \* pagination loop: the local accumulation
    result,          \* the value the running function returned
    progress,        \* the updates handed to onProgress, in order
    nCalls,          \* remote requests issued
    nPages,          \* pages the remote has served to the running loop
    reqCursor,       \* cursor of the latest page request (-1 before any)
    respBefore,      \* nextCursor the remote had last returned before it
    lastNext,        \* nextCursor of the latest page served
    sinceDelay,      \* a rate-limit delay was awaited since the latest page
    reqDelayed,      \* the latest page request came after such a delay
    failures,        \* transient failures the remote has produced
    walletAddress,   \* entry points: parameter walletAddress
    owned,           \* remote: the wallet's objects, in the remote's order
    fpages,          \* remote: the pages of the StructType-filtered query
    filterBroken,    \* remote: the filtered query fails on every request
    kioskObjects,    \* remote: kiosk -> the getObject response for it
    primaryFailed,   \* fetchKioskOwnerCaps went into its catch block
    nFiltered,       \* filtered getOwnedObjects requests issued
    nObject,         \* getObject requests issued
    candidates,      \* processKioskOwnerCaps: ownedObjects.data
    idx,             \* processKioskOwnerCaps: position of the for loop
    kiosks,          \* processKioskOwnerCaps: local kiosks
    parentId,        \* getKioskNFTs: parameter kioskId, the parentId sent
    dynamicFields,   \* getKioskNFTs: local dynamicFields (its data)
    fieldIdx,        \* processDynamicFields: position of the for loop
    itemIdsToFetch,  \* processDynamicFields: local itemIdsToFetch
    nfts,            \* processDynamicFields: the items found so far
    contents,        \* remote: kiosk -> its dynamic fields (first page)
    nftObj,          \* isNFTObject: the object it is called on
    verdicts,        \* isNFTObject: what its calls on nftObj returned, in order
    kpc,             \* streamKioskContents: its position
    kioskIdx,        \* streamKioskContents: position of the for loop
    kiosksResult,    \* discoverUserKiosksAndNFTsProgressive: kiosksResult
    collectedNFTs,   \* discoverUserKiosksAndNFTsProgressive: collectedNFTs
    input,           \* parseWalletAddresses: parameter input, split at ','
    walletAddresses, \* prepareBulkTransferRecipients: parameter
    batchStart,      \* prepareBulkTransferRecipients: i of the for loop
    recipients,      \* prepareBulkTransferRecipients: local recipients
    lookups,         \* the addresses getUserKiosks was called with, in order
    unreachable,     \* remote: the addresses whose capability fetch fails
    inFlight,        \* prepareBulkTransferRecipients: the positions in
                     \* walletAddresses whose batchPromises are pending
    settled,         \* prepareBulkTransferRecipients: position -> the value
                     \* its promise of the running batch resolved with
    waits,           \* prepareBulkTransferRecipients: the delays awaited
    reordered,       \* a promise settled while one for an earlier address
                     \* of its batch was pending
    txIdx,           \* createBulkTransferTransaction: i of the for loop
    txOps,           \* createBulkTransferTransaction: the commands of txb
    currentNetwork,  \* simple-sui-client: module variable currentNetwork
    currentClient,   \* simple-sui-client: module variable currentClient
    calls,           \* the switchNetwork calls and the remote calls issued
                     \* through suiClient, in order
    reqIds           \* remote: params.ids of the last multiGetObjects request

retryVars == <<attempts, delayMs, i, lastError, lastThrown, opCalls, delays,
               tries>>

pageVars == <<pages, loop, cursor, paginationCount, allObjects, nPages,
              reqCursor, respBefore, lastNext, sinceDelay, reqDelayed>>

capVars == <<walletAddress, owned, fpages, kioskObjects, filterBroken,
             primaryFailed, nFiltered, nObject>>

procVars == <<candidates, idx, kiosks>>

itemVars == <<parentId, dynamicFields, fieldIdx, itemIdsToFetch, nfts,
              contents, nftObj>>

progVars == <<kpc, kioskIdx, kiosksResult, collectedNFTs>>

joinVars == <<inFlight, settled, waits, reordered>>

txVars == <<txIdx, txOps>>

planVars == <<input, walletAddresses, batchStart, recipients, lookups,
              unreachable, joinVars, txVars>>

netVars == <<currentNetwork, currentClient, calls, reqIds>>

extVars == <<verdicts, progVars, planVars, netVars>>

vars == <<entry, build, pc, retryVars, outcome, thrown, retVal, pageVars,
          result, progress, nCalls, failures, capVars, procVars, itemVars,
          extVars>>

----------------------------------------------------------------------------
(* CONFIG *)

RETRY_ATTEMPTS == 3
RETRY_DELAY == 1000

(* Bounds of the model *)

MaxAttempts == 4          \* withRetry is called with attempts in 0..MaxAttempts
MaxDelayUnit == 2         \* delayMs is 1..MaxDelayUnit times RETRY_DELAY

----------------------------------------------------------------------------
(* Thrown values.  A value is an Error instance (isError) or any other     *)
(* JavaScript value; ref is its identity, message what String() gives.     *)

Undefined == [isError |-> FALSE, ref |-> "undefined", message |-> "undefined"]

HttpError == [isError |-> TRUE, ref |-> "e1", message |-> "HTTP error"]

RpcError == [isError |-> TRUE, ref |-> "e2", message |-> "RPC error"]

TypeError == [isError |-> TRUE, ref |-> "e3", message |-> "Failed to fetch"]

ErrorInstances == {HttpError, RpcError, TypeError}

PlainValues ==
    { [isError |-> FALSE, ref |-> "s1", message |-> "timeout"] }

ThrowVals == ErrorInstances \cup PlainValues

\* new Error(String(error))
NewError(error) ==
    [isError |-> TRUE, ref |-> "new Error", message |-> error.message]

ToErrorWrapAll(error) == NewError(error)

\* error instanceof Error ? error : new Error(String(error))
ToError(error) == IF error.isError THEN error ELSE NewError(error)

RetryLastIndexOneMore == attempts

\* i < attempts - 1 is false: the failed attempt was the last one
RetryLastIndex == attempts - 1

RetryExhausted == ~(i < RetryLastIndex)

\* a wait that doubles with every attempt
RetryBackoffExponential == delayMs * 2^i

\* delay(delayMs * (i + 1))
RetryBackoff == delayMs * (i + 1)

----------------------------------------------------------------------------
(* Strings, as far as the format validators read them: pre (starts with    *)
(* "0x"), n (number of characters after the prefix, or in all when there   *)
(* is no prefix), hex (those characters are all hexadecimal digits) and    *)
(* tag (which string of that shape it is).                                 *)

ID_HEX_LEN == 64

Str(pre, n, hex, tag) == [pre |-> pre, n |-> n, hex |-> hex, tag |-> tag]

EmptyStr == Str(FALSE, 0, TRUE, 0)

\* a well-formed 0x + 64 hex digits identifier
Id(k) == Str(TRUE, ID_HEX_LEN, TRUE, k)

\* a non-empty string that is no identifier
BadStr(k) == Str(FALSE, 5, FALSE, k)

\* /^0x[a-fA-F0-9]{64}$/.test(id)
isValidObjectId(id) == id.pre /\ id.hex /\ id.n = ID_HEX_LEN

\* kiosk-discovery.ts: /^0x[a-fA-F0-9]{64}$/.test(address)
isValidWalletAddressStrict(address) ==
    address.pre /\ address.hex /\ address.n = ID_HEX_LEN

\* part_006: /^0x[a-fA-F0-9]{1,64}$/.test(address)
isValidWalletAddressLoose(address) ==
    address.pre /\ address.hex /\ address.n >= 1 /\ address.n <= ID_HEX_LEN

isValidWalletAddressNone(address) == TRUE

isValidWalletAddress(address) ==
    IF build = "p006" THEN isValidWalletAddressLoose(address)
                      ELSE isValidWalletAddressStrict(address)

----------------------------------------------------------------------------
(* The remote's paginated answers: pages[c] is the page served for cursor  *)
(* c, with cursor 0 standing for null.                                     *)

NoPages == [c \in {0} |-> [data |-> <<>>, next |-> 0]]

PageIdle ==
    /\ loop = "" /\ cursor = 0 /\ paginationCount = 0 /\ allObjects = <<>>
    /\ nPages = 0 /\ reqCursor = -1 /\ respBefore = 0 /\ lastNext = 0
    /\ sinceDelay = FALSE /\ reqDelayed = FALSE

(* The getObject response for a kiosk, as far as getKioskItemCount reads   *)
(* it: whether it has data, whether data.content.fields is there, and the  *)
(* values of the fields item_count, itemCount and items.                   *)

Num(n) == [kind |-> "number", n |-> n]

NotNum(kind) == [kind |-> kind, n |-> 0]

KioskObject(hasData, hasFields, item_count, itemCount, items) ==
    [hasData |-> hasData, hasFields |-> hasFields,
     fields |-> [f \in {"item_count", "itemCount", "items"} |->
                   CASE f = "item_count" -> item_count
                     [] f = "itemCount" -> itemCount
                     [] f = "items" -> items]]

\* kiosk k holds k items
KnownKiosks ==
    [k \in 1..2 |->
        KioskObject(TRUE, TRUE, Num(k), NotNum("undefined"), NotNum("undefined"))]

\* getKioskNFTs is not running
ItemIdle ==
    /\ parentId = EmptyStr /\ dynamicFields = <<>> /\ fieldIdx = 0
    /\ itemIdsToFetch = <<>> /\ nfts = <<>>
    /\ contents = <<>> /\ nftObj = <<>>

\* no entry point of the capability resolver is running
CapIdle ==
    /\ ItemIdle
    /\ kioskObjects = KnownKiosks
    /\ walletAddress = EmptyStr /\ owned = <<>> /\ fpages = NoPages
    /\ filterBroken = FALSE /\ primaryFailed = FALSE
    /\ nFiltered = 0 /\ nObject = 0
    /\ candidates = <<>> /\ idx = 0 /\ kiosks = <<>>

\* simple-sui-client.ts: NETWORK_URLS
NETWORK_URLS ==
    [mainnet |-> "https://fullnode.mainnet.sui.io:443",
     testnet |-> "https://fullnode.testnet.sui.io:443",
     devnet |-> "https://fullnode.devnet.sui.io:443"]

\* new SimpleSuiClient({ url })
SimpleSuiClient(url) == [url |-> url]

\* createSuiClient(network)
createSuiClient(network) == SimpleSuiClient(NETWORK_URLS[network])

\* simple-sui-client.ts as loaded: currentNetwork = 'mainnet' and
\* currentClient = createSuiClient(currentNetwork); no call was issued
NetIdle ==
    /\ currentNetwork = "mainnet"
    /\ currentClient = createSuiClient("mainnet")
    /\ calls = <<>>
    /\ reqIds = <<>>

\* the streams of the progressive discovery are not running
ProgIdle ==
    kpc = "idle" /\ kioskIdx = 0 /\ kiosksResult = <<>> /\ collectedNFTs = <<>>

\* the bulk transfer planner is not running
JoinIdle ==
    inFlight = {} /\ settled = <<>> /\ waits = <<>> /\ reordered = FALSE

TxIdle == txIdx = 0 /\ txOps = <<>>

PlanIdle ==
    /\ input = <<>> /\ walletAddresses = <<>> /\ batchStart = 0
    /\ recipients = <<>> /\ lookups = <<>> /\ unreachable = {}
    /\ JoinIdle /\ TxIdle

ExtIdle == verdicts = <<>> /\ ProgIdle /\ PlanIdle /\ NetIdle

----------------------------------------------------------------------------
(* withRetry(operation, attempts, delayMs) on an arbitrary operation *)

RetryIdle ==
    /\ i = 0 /\ lastError = Undefined /\ lastThrown = Undefined
    /\ opCalls = 0 /\ delays = <<>> /\ tries = 0

InitRetry ==
    /\ entry = "withRetry"
    /\ build = "lib"
    /\ pc = "retry"
    /\ attempts \in 0..MaxAttempts
    /\ delayMs \in {k * RETRY_DELAY : k \in 1..MaxDelayUnit}
    /\ RetryIdle
    /\ outcome = "running"
    /\ thrown = Undefined
    /\ retVal = 0
    /\ pages = NoPages
    /\ PageIdle
    /\ result = <<>>
    /\ progress = <<>>
    /\ nCalls = 0
    /\ failures = 0
    /\ ExtIdle
    /\ CapIdle

\* a loop that goes on while i <= attempts
RetryLoopInclusive == i <= attempts

\* for (let i = 0; i < attempts; i++): the body runs
RetryLoop == i < attempts

\* return await operation(): the invocation resolves with v
RetryOpSucceeds(v) ==
    /\ entry = "withRetry" /\ pc = "retry" /\ RetryLoop
    /\ opCalls' = opCalls + 1
    /\ tries' = tries + 1
    /\ retVal' = v
    /\ outcome' = "returned"
    /\ pc' = "done"
    /\ UNCHANGED <<entry, build, extVars, itemVars, attempts, delayMs, i, lastError, lastThrown,
                   delays, thrown, pageVars, result, progress, nCalls,
                   failures, capVars, procVars>>

\* the invocation rejects with error: the catch block, and after the last
\* attempt, throw lastError
RetryOpFails(error) ==
    /\ entry = "withRetry" /\ pc = "retry" /\ RetryLoop
    /\ opCalls' = opCalls + 1
    /\ tries' = tries + 1
    /\ lastThrown' = error
    /\ lastError' = ToError(error)
    /\ IF RetryExhausted
         THEN /\ thrown' = lastError'
              /\ outcome' = "threw"
              /\ pc' = "done"
              /\ UNCHANGED <<i, delays>>
         ELSE /\ delays' = Append(delays, RetryBackoff)
              /\ i' = i + 1
              /\ UNCHANGED <<thrown, outcome, pc>>
    /\ UNCHANGED <<entry, build, extVars, itemVars, attempts, delayMs, retVal, pageVars, result,
                   progress, nCalls, failures, capVars, procVars>>

\* attempts = 0: the loop body never runs and throw lastError! throws undefined
RetryNoAttempt ==
    /\ entry = "withRetry" /\ pc = "retry" /\ ~RetryLoop
    /\ thrown' = lastError
    /\ outcome' = "threw"
    /\ pc' = "done"
    /\ UNCHANGED <<entry, build, extVars, itemVars, retryVars, retVal, pageVars, result,
                   progress, nCalls, failures, capVars, procVars>>

NextRetry ==
    \/ \E v \in 1..2 : RetryOpSucceeds(v)
    \/ \E error \in ThrowVals : RetryOpFails(error)
    \/ RetryNoAttempt

SpecRetry == InitRetry /\ [][NextRetry]_vars

----------------------------------------------------------------------------
(* Type tags.  `has` is the set of the markers the code searches for that  *)
(* occur in the tag as substrings.                                         *)

NoType == [name |-> "", has |-> {}]

KIOSK_OWNER_CAP_TYPE ==
    [name |-> "0x2::kiosk::KioskOwnerCap",
     has |-> {"0x2::kiosk::KioskOwnerCap", "kiosk", "KioskOwnerCap", "OwnerCap"}]

OtherCapType ==
    [name |-> "0xabc::my_kiosk::OwnerCap", has |-> {"kiosk", "OwnerCap"}]

CoinType == [name |-> "0x2::coin::Coin", has |-> {}]

\* type.includes(marker)
includes(type, marker) == marker \in type.has

NftType == [name |-> "0x5::nft::Art", has |-> {"nft"}]

UpperNftType == [name |-> "0x5::art::NFT", has |-> {"NFT"}]

MixedNftType == [name |-> "0x5::art::Nft", has |-> {"Nft"}]

CollectibleType == [name |-> "0x5::collectible::Card", has |-> {"collectible"}]

MixedCollectibleType ==
    [name |-> "0x5::cards::Collectible", has |-> {"Collectible"}]

DynamicFieldType == [name |-> "0x2::dynamic_field::Field", has |-> {}]

\* display.data, as far as isNFTObject reads it: whether name and
\* image_url are truthy
Display(name, image_url) ==
    [present |-> TRUE, name |-> name, image_url |-> image_url]

NoDisplay == [present |-> FALSE, name |-> FALSE, image_url |-> FALSE]

----------------------------------------------------------------------------
(* Raw records of the remote.  An entry of a getOwnedObjects page is the   *)
(* object itself or a wrapper { data: object }.                            *)

FieldNames == {"for", "kiosk_id", "kioskId", "kiosk", "id"}

Absent == [kind |-> "undefined", s |-> EmptyStr]

NonString == [kind |-> "object", s |-> EmptyStr]

S(s) == [kind |-> "string", s |-> s]

NoFields == [f \in FieldNames |-> Absent]

Fields(for, kiosk_id, kioskId) ==
    [NoFields EXCEPT !["for"] = for, !["kiosk_id"] = kiosk_id,
                     !["kioskId"] = kioskId]

Entry(k, wrapped, type, hasFields, fields) ==
    [objectId |-> Id(10 + k), wrapped |-> wrapped, type |-> type,
     hasFields |-> hasFields, fields |-> fields, display |-> NoDisplay]

\* an owned object that is no capability: it has the id Id(30 + k), a
\* type and display data
OwnedItem(k, wrapped, type, display) ==
    [objectId |-> Id(30 + k), wrapped |-> wrapped, type |-> type,
     hasFields |-> FALSE, fields |-> NoFields, display |-> display]

Entries ==
    <<  \* 1: capability of kiosk 1
        Entry(1, FALSE, KIOSK_OWNER_CAP_TYPE, TRUE, Fields(S(Id(1)), Absent, Absent)),
        \* 2: capability whose `for` is no identifier; kiosk_id names kiosk 2
        Entry(2, FALSE, KIOSK_OWNER_CAP_TYPE, TRUE, Fields(S(BadStr(1)), S(Id(2)), Absent)),
        \* 3: a capability of another package, of kiosk 2
        Entry(3, FALSE, OtherCapType, TRUE, Fields(S(Id(2)), Absent, Absent)),
        \* 4: a coin
        Entry(4, FALSE, CoinType, TRUE, NoFields),
        \* 5: capability without content fields
        Entry(5, FALSE, KIOSK_OWNER_CAP_TYPE, FALSE, NoFields),
        \* 6: capability of kiosk 1, delivered inside a { data } wrapper
        Entry(6, TRUE, KIOSK_OWNER_CAP_TYPE, TRUE, Fields(S(Id(1)), Absent, Absent)),
        \* 7: capability whose `for` is no string; kioskId names kiosk 1
        Entry(7, FALSE, KIOSK_OWNER_CAP_TYPE, TRUE, Fields(NonString, Absent, S(Id(1)))),
        \* 8: a coin inside a { data } wrapper
        Entry(8, TRUE, CoinType, TRUE, NoFields),
        \* 9: a capability of another package, of kiosk 2, inside a wrapper
        Entry(9, TRUE, OtherCapType, TRUE, Fields(S(Id(2)), Absent, Absent)),
        \* 10: capability of kiosk 2 inside a wrapper
        Entry(10, TRUE, KIOSK_OWNER_CAP_TYPE, TRUE, Fields(S(Id(2)), Absent, Absent)),
        \* 11: capability of kiosk 2
        Entry(11, FALSE, KIOSK_OWNER_CAP_TYPE, TRUE, Fields(S(Id(2)), Absent, Absent)),
        \* 12: capability whose only field, `for`, is no identifier
        Entry(12, FALSE, KIOSK_OWNER_CAP_TYPE, TRUE, Fields(S(BadStr(2)), Absent, Absent)),
        \* 13: an NFT by its type, inside a wrapper
        OwnedItem(1, TRUE, NftType, NoDisplay),
        \* 14: an NFT by its display data, inside a wrapper
        OwnedItem(2, TRUE, CoinType, Display(TRUE, FALSE)),
        \* 15: capability without content fields, inside a wrapper
        Entry(15, TRUE, KIOSK_OWNER_CAP_TYPE, FALSE, NoFields)
    >>

EntryIds == DOMAIN Entries

(* An element of a list the code holds: the entry e as the remote sent it, *)
(* or (inner) the object taken out of its wrapper by entry.data.           *)

Raw(e) == [e |-> e, inner |-> FALSE]

Inner(e) == [e |-> e, inner |-> TRUE]

\* the element is an object, not a wrapper around one
IsObject(x) == x.inner \/ ~Entries[x.e].wrapped

\* obj.type
TypeOf(x) == IF IsObject(x) THEN Entries[x.e].type ELSE NoType

\* obj.data?.type
DataTypeOf(x) == IF IsObject(x) THEN NoType ELSE Entries[x.e].type

\* obj.content?.type
ContentTypeOf(x) ==
    IF IsObject(x) /\ Entries[x.e].hasFields THEN Entries[x.e].type ELSE NoType

\* obj.content?.fields is present
HasFields(x) == IsObject(x) /\ Entries[x.e].hasFields

\* obj.content.fields[name]
FieldOf(x, name) == Entries[x.e].fields[name]

\* obj.objectId
ObjectIdOf(x) == IF IsObject(x) THEN Entries[x.e].objectId ELSE EmptyStr

RECURSIVE MapRaw(_)
\* batch.data as received
MapRaw(data) ==
    IF data = <<>> THEN <<>> ELSE <<Raw(Head(data))>> \o MapRaw(Tail(data))

RECURSIVE Unwrap(_)
\* batch.data.map(obj => obj.data).filter(Boolean)
Unwrap(data) ==
    IF data = <<>> THEN <<>>
    ELSE (IF Entries[Head(data)].wrapped THEN <<Inner(Head(data))>> ELSE <<>>)
             \o Unwrap(Tail(data))

----------------------------------------------------------------------------
(* Remote calls made through withRetry with its default parameters.        *)

MaxFailures == 3          \* transient failures the remote produces in a run

\* SimpleSuiClient throws new Error(...) on an HTTP or an RPC error, and
\* fetch rejects with a TypeError; the remote's failures of one run cycle
\* through the three
RemoteError ==
    CASE failures % 3 = 0 -> HttpError
      [] failures % 3 = 1 -> RpcError
      [] OTHER -> TypeError

\* withRetry is entered with its defaults
RetryDefaults ==
    /\ attempts = RETRY_ATTEMPTS /\ delayMs = RETRY_DELAY /\ RetryIdle

\* an invocation of the wrapped remote call resolved: withRetry returns,
\* and its locals are gone
RetryReturn ==
    /\ opCalls' = opCalls + 1
    /\ tries' = 0
    /\ i' = 0
    /\ lastError' = Undefined
    /\ lastThrown' = Undefined
    /\ delays' = <<>>
    /\ UNCHANGED <<attempts, delayMs>>

\* an invocation rejected with error: the catch block of withRetry; when
\* RetryExhausted held, withRetry throws lastError'
RetryCatch(error) ==
    /\ opCalls' = opCalls + 1
    /\ tries' = IF i = 0 THEN 1 ELSE tries + 1
    /\ lastThrown' = error
    /\ lastError' = ToError(error)
    /\ IF RetryExhausted
         THEN i' = 0 /\ UNCHANGED delays
         ELSE /\ i' = i + 1
              /\ delays' = Append(IF i = 0 THEN <<>> ELSE delays, RetryBackoff)
    /\ UNCHANGED <<attempts, delayMs>>

----------------------------------------------------------------------------
(* The pagination loops:                                                   *)
(*   fetchAllObjectsWithFilter, fetchAllOwnedObjects,                      *)
(*   fetchKioskDynamicFields and, in part_006, the streamWalletOwned loop  *)
(*   of discoverUserKiosksAndNFTsProgressive.                              *)

MAX_PAGINATION_LIMIT == 1000

Loops == {"fetchAllObjectsWithFilter", "fetchAllOwnedObjects",
          "fetchKioskDynamicFields", "streamWalletOwned"}

RequestCursorStale == respBefore

\* cursor: cursor || undefined
RequestCursor == cursor

\* what one iteration appends to the accumulation for the page received
PageItems(data) ==
    CASE loop = "fetchAllObjectsWithFilter" ->
            IF build = "p006" THEN Unwrap(data) ELSE MapRaw(data)
      [] loop = "fetchAllOwnedObjects" ->
            IF build = "p004" THEN MapRaw(data) ELSE Unwrap(data)
      [] loop = "fetchKioskDynamicFields" -> MapRaw(data)
      [] loop = "streamWalletOwned" -> Unwrap(data)

\* if (cursor) await delay(CONFIG.RATE_LIMIT_DELAY): fetchKioskDynamicFields
\* tests the cursor it sent, the other loops the cursor they received;
\* fetchAllOwnedObjects of part_006 and streamWalletOwned do not wait
RateDelay(sent, received) ==
    CASE loop = "fetchAllObjectsWithFilter" -> received # 0
      [] loop = "fetchAllOwnedObjects" -> build # "p006" /\ received # 0
      [] loop = "fetchKioskDynamicFields" -> sent # 0
      [] loop = "streamWalletOwned" -> FALSE

LoopContinuesNoCeiling(next, count) == next # 0

\* while (cursor), then at the top of the body
\* if (paginationCount >= CONFIG.MAX_PAGINATION_LIMIT) break
LoopContinues(next, count) == next # 0 /\ ~(count >= MAX_PAGINATION_LIMIT)

\* obj.data?.type || obj.type || '' and its variants
FilterType(x) ==
    CASE build = "lib" ->
            IF DataTypeOf(x) # NoType THEN DataTypeOf(x) ELSE TypeOf(x)
      [] build = "p004" ->
            IF TypeOf(x) # NoType THEN TypeOf(x) ELSE ContentTypeOf(x)
      [] build = "p006" -> TypeOf(x)

\* objType.includes('kiosk') &&
\*   (objType.includes('KioskOwnerCap') || objType.includes('OwnerCap'))
IsKioskCapType(type) ==
    includes(type, "kiosk")
        /\ (includes(type, "KioskOwnerCap") \/ includes(type, "OwnerCap"))

\* allObjects.filter(...)
FilterKioskCaps(objects) ==
    SelectSeq(objects, LAMBDA x : IsKioskCapType(FilterType(x)))

\* the value the loop's function returns
LoopValueEmpty(objects) == <<>>

LoopValue(objects) ==
    CASE loop = "fetchAllObjectsWithFilter" -> FilterKioskCaps(objects)
      [] loop = "fetchAllOwnedObjects" -> objects
      [] loop = "fetchKioskDynamicFields" -> objects
      [] loop = "streamWalletOwned" -> <<>>

\* NFTInfo: { id, type, display, kioskId }
NFTInfo(id, type, display, kiosk) ==
    [id |-> id, type |-> type, display |-> display, kioskId |-> kiosk]

\* 'direct_ownership', 'unknown_kiosk' and 'wallet' in the place of a
\* kiosk id
DIRECT_OWNERSHIP == Str(FALSE, 16, FALSE, 91)

UNKNOWN_KIOSK == Str(FALSE, 13, FALSE, 92)

WALLET == Str(FALSE, 6, FALSE, 93)

\* an element of allOwnedObjects as isNFTObject and the item lists read it
OwnedObject(x) ==
    [objectId |-> ObjectIdOf(x), hasData |-> TRUE, type |-> TypeOf(x),
     display |-> IF IsObject(x) THEN Entries[x.e].display ELSE NoDisplay]

\* obj.type || 'unknown'
TypeOrUnknown(type) ==
    IF type = NoType THEN [name |-> "unknown", has |-> {}] ELSE type

\* part_006: allOwnedObjects.map(obj => ({ id, type, display, kioskId:
\* 'wallet' })); display.name always has a text
WalletNFTs(objects) ==
    [k \in DOMAIN objects |->
        LET o == OwnedObject(objects[k])
        IN  NFTInfo(o.objectId, TypeOrUnknown(o.type),
                    Display(TRUE, o.display.image_url), WALLET)]

\* onProgress({ nfts }) of streamWalletOwned, when the batch is not empty
StreamProgress(items) ==
    IF loop = "streamWalletOwned" /\ items # <<>>
      THEN Append(progress, [kind |-> "nfts", items |-> WalletNFTs(items)])
      ELSE progress

\* the batch of the wallet is handed to onProgress and not kept
StreamCollectedDropped(items) == collectedNFTs

\* collectedNFTs.push(...nfts) of streamWalletOwned, under the same test
StreamCollected(items) ==
    IF loop = "streamWalletOwned" /\ items # <<>>
      THEN collectedNFTs \o WalletNFTs(items)
      ELSE collectedNFTs

ctlVars == <<pc, outcome, result, thrown, procVars, itemVars>>

----------------------------------------------------------------------------
(* The entry points that take a wallet address, and what they throw.       *)

EntryPoints == {"getUserKiosks", "discoverUserKiosksAndNFTs",
                "discoverUserKiosksAndNFTsProgressive", "getAvailableNFTTypes"}

\* new ValidationError('Invalid wallet address format', 'walletAddress')
ValidationError ==
    [isError |-> TRUE, ref |-> "VALIDATION_ERROR",
     message |-> "Invalid wallet address format",
     code |-> "VALIDATION_ERROR", context |-> [field |-> "walletAddress"]]

\* the code each entry point gives the KioskDiscoveryError of its catch block
ErrorCode ==
    CASE entry = "getUserKiosks" -> "KIOSK_DISCOVERY_FAILED"
      [] entry = "discoverUserKiosksAndNFTs" ->
            IF build = "p006" THEN "SIMPLIFIED_DISCOVERY_FAILED"
                              ELSE "OPTIMIZED_DISCOVERY_FAILED"
      [] entry = "discoverUserKiosksAndNFTsProgressive" ->
            "PROGRESSIVE_DISCOVERY_FAILED"
      [] entry = "getAvailableNFTTypes" -> "NFT_TYPES_FETCH_FAILED"

\* the text each entry point puts before the message of the error caught
ErrorPrefixOf(fn) ==
    CASE fn = "getUserKiosks" -> "Failed to fetch kiosks: "
      [] fn = "discoverUserKiosksAndNFTs" ->
            IF build = "p006" THEN "Simplified kiosk and NFT discovery failed: "
                              ELSE "Optimized kiosk and NFT discovery failed: "
      [] fn = "discoverUserKiosksAndNFTsProgressive" ->
            "Progressive kiosk and NFT discovery failed: "
      [] fn = "getAvailableNFTTypes" -> "Failed to get available NFT types: "

\* error instanceof Error ? error.message : 'Unknown error'
ErrorMessageOf(error) == IF error.isError THEN error.message ELSE "Unknown error"

\* a catch block that loses the message of the error it caught
WrapErrorUnknown(fn, code, error) ==
    [isError |-> TRUE, ref |-> code,
     message |-> <<ErrorPrefixOf(fn), "Unknown error">>,
     code |-> code, context |-> [walletAddress |-> walletAddress]]

\* new KioskDiscoveryError(`...: ${errorMessage}`, code, { walletAddress })
\* in the catch block of fn; the message is the prefix, then errorMessage
WrapError(fn, code, error) ==
    [isError |-> TRUE, ref |-> code,
     message |-> <<ErrorPrefixOf(fn), ErrorMessageOf(error)>>,
     code |-> code, context |-> [walletAddress |-> walletAddress]]

\* what the running entry point throws for an error caught in it;
\* getAvailableNFTTypes catches what discoverUserKiosksAndNFTs has thrown
DiscoveryError(error) ==
    IF entry = "getAvailableNFTTypes"
      THEN WrapError(entry, ErrorCode,
              WrapError("discoverUserKiosksAndNFTs",
                        IF build = "p006" THEN "SIMPLIFIED_DISCOVERY_FAILED"
                                          ELSE "OPTIMIZED_DISCOVERY_FAILED",
                        error))
      ELSE WrapError(entry, ErrorCode, error)

----------------------------------------------------------------------------
(* processKioskOwnerCap *)

FieldOrder == <<"for", "kiosk_id", "kioskId", "kiosk", "id">>

\* typeof value === 'string' && value.length > 0
NonEmptyString(value) == value.kind = "string" /\ (value.s.pre \/ value.s.n > 0)

\* extractKioskId(fields): the first field of the list that holds a
\* non-empty string, or null
extractKioskId(x) ==
    LET hits == { k \in DOMAIN FieldOrder :
                    NonEmptyString(FieldOf(x, FieldOrder[k])) }
    IN  IF hits = {} THEN Absent
        ELSE FieldOf(x, FieldOrder[CHOOSE k \in hits : \A j \in hits : k <= j])

\* const kioskId = fields.for, null when !kioskId || typeof kioskId !== 'string'
ForField(x) ==
    IF NonEmptyString(FieldOf(x, "for")) THEN FieldOf(x, "for") ELSE Absent

\* the kiosk id processKioskOwnerCap settles on, Absent where it returns null
KioskIdOfCap(x) ==
    IF ~HasFields(x) THEN Absent
    ELSE LET kioskId == IF build = "p004" THEN extractKioskId(x)
                                          ELSE ForField(x)
         IN  IF kioskId # Absent /\ isValidObjectId(kioskId.s)
               THEN kioskId ELSE Absent

possibleCountFields == <<"item_count", "itemCount", "items">>

\* getKioskItemCount, from the response on: 0 without content fields, else
\* the first of the fields that is a number >= 0, else 0
ItemCountOf(kioskObject) ==
    IF ~kioskObject.hasData \/ ~kioskObject.hasFields THEN 0
    ELSE LET hits == { k \in DOMAIN possibleCountFields :
                         LET value == kioskObject.fields[possibleCountFields[k]]
                         IN  value.kind = "number" /\ value.n >= 0 }
         IN  IF hits = {} THEN 0
             ELSE kioskObject.fields[possibleCountFields[
                      CHOOSE k \in hits : \A j \in hits : k <= j]].n

\* getKioskItemCount(kioskId) when the request resolves
KioskItemCount(kioskId) == ItemCountOf(kioskObjects[kioskId.tag])

\* { id: kioskId, ownerCapId: obj.objectId, itemCount }
KioskInfo(x, itemCount) ==
    [id |-> KioskIdOfCap(x).s, ownerCapId |-> ObjectIdOf(x),
     itemCount |-> itemCount]

\* processKioskOwnerCaps: the for loop goes on with candidate j, or the
\* function returns ks and getUserKiosks returns it;
\* discoverUserKiosksAndNFTs of kiosk-discovery.ts, which maps
\* processKioskOwnerCap over its kioskCaps, goes on to the NFTs
ProcessNext(cands, j, ks) ==
    CASE j <= Len(cands) -> pc' = "process" /\ UNCHANGED <<outcome, result>>
      [] j > Len(cands) /\ entry = "getUserKiosks" ->
            pc' = "done" /\ outcome' = "returned" /\ result' = ks
      [] OTHER -> pc' = "contents" /\ UNCHANGED <<outcome, result>>

----------------------------------------------------------------------------
(* Objects a kiosk can hold, and the dynamic fields that lead to them.     *)

\* type.includes('nft') || type.includes('NFT') ||
\* type.includes('collectible')
hasNFTType(type) ==
    includes(type, "nft") \/ includes(type, "NFT")
        \/ includes(type, "collectible")

\* Boolean(displayData && (displayData.name || displayData.image_url))
hasDisplayData(display) ==
    display.present /\ (display.name \/ display.image_url)

\* isNFTObject(obj), obj a SuiObjectData: if (!obj.type) return false
isNFTObject(obj) ==
    obj.type # NoType /\ (hasNFTType(obj.type) \/ hasDisplayData(obj.display))

\* object k a kiosk or a wallet can hold; hasData is whether the remote
\* still returns data for its id
Item(k, hasData, type, display) ==
    [objectId |-> Id(30 + k), hasData |-> hasData, type |-> type,
     display |-> display]

Items ==
    <<  \* 1: an NFT by its type
        Item(1, TRUE, NftType, NoDisplay),
        \* 2: an NFT by its display metadata
        Item(2, TRUE, CoinType, Display(TRUE, FALSE)),
        \* 3: a coin
        Item(3, TRUE, CoinType, NoDisplay),
        \* 4: an object the remote has no data for
        Item(4, FALSE, NoType, NoDisplay)
    >>

\* the fields of a dynamic field object the resolvers read
ItemFieldNames == {"id", "value", "item_id", "itemId", "item"}

NoItemFields == [f \in ItemFieldNames |-> Absent]

\* the dynamic field object of field f: what getObject(field.objectId) and
\* getDynamicFieldObject({ parentId, name }) return as data; objectId is
\* data.objectId as delivered, itemFieldsId is content.fields.item.fields.id
FieldObject(hasData, objectId, type, hasFields, id, value, itemFieldsId) ==
    [hasData |-> hasData, objectId |-> objectId, type |-> type,
     display |-> NoDisplay, hasFields |-> hasFields,
     fields |-> [NoItemFields EXCEPT !["id"] = id, !["value"] = value,
                   !["item"] = IF itemFieldsId = Absent THEN Absent
                               ELSE NonString],
     itemFieldsId |-> itemFieldsId]

\* entry f of a getDynamicFields page: { name, objectId }
DynamicField(f, name, object) ==
    [name |-> name, objectId |-> Id(40 + f), object |-> object]

DynamicFields ==
    <<  \* 1: the name is the id of item 1, and so is the wrapped value
        DynamicField(1, S(Id(31)),
            FieldObject(TRUE, Id(41), DynamicFieldType, TRUE,
                        NonString, S(Id(31)), Absent)),
        \* 2: valid id (item 2) and valid value (item 1), no objectId
        DynamicField(2, NonString,
            FieldObject(TRUE, EmptyStr, DynamicFieldType, TRUE,
                        S(Id(32)), S(Id(31)), Absent)),
        \* 3: nothing in it is an identifier
        DynamicField(3, NonString,
            FieldObject(TRUE, EmptyStr, DynamicFieldType, TRUE,
                        NonString, S(BadStr(3)), Absent)),
        \* 4: the remote has no data for the field object
        DynamicField(4, NonString,
            FieldObject(FALSE, EmptyStr, NoType, FALSE,
                        Absent, Absent, Absent)),
        \* 5: the id of item 2 in content.fields.item.fields.id only
        DynamicField(5, NonString,
            FieldObject(TRUE, EmptyStr, DynamicFieldType, TRUE,
                        Absent, Absent, S(Id(32)))),
        \* 6: the name is the id of a coin; the field object has no fields
        DynamicField(6, S(Id(33)),
            FieldObject(TRUE, Id(46), DynamicFieldType, FALSE,
                        Absent, Absent, Absent)),
        \* 7: the field object is itself an NFT, its name the id of item 4
        DynamicField(7, S(Id(34)),
            FieldObject(TRUE, Id(47), NftType, TRUE,
                        NonString, Absent, Absent))
    >>

FieldIds == DOMAIN DynamicFields

\* the response of getObject / multiGetObjects for one id, as an object
\* with data or without
NoObject ==
    [objectId |-> EmptyStr, hasData |-> FALSE, type |-> NoType,
     display |-> NoDisplay]

ObjectOf(id) ==
    CASE \E k \in DOMAIN Items : Items[k].objectId = id ->
            Items[CHOOSE k \in DOMAIN Items : Items[k].objectId = id]
      [] \E f \in FieldIds : DynamicFields[f].objectId = id ->
            LET o == DynamicFields[CHOOSE f \in FieldIds :
                                     DynamicFields[f].objectId = id].object
            IN  [objectId |-> id, hasData |-> o.hasData, type |-> o.type,
                 display |-> o.display]
      [] OTHER -> NoObject

----------------------------------------------------------------------------
(* processDynamicFields: from a dynamic field to the id of an item *)

\* typeof value === 'string' && isValidObjectId(value)
ValidIdString(value) == value.kind = "string" /\ isValidObjectId(value.s)

\* kiosk-discovery.ts: the names that are object ids, in field order
RECURSIVE ValidNames(_)
ValidNames(fields) ==
    IF fields = <<>> THEN <<>>
    ELSE LET name == DynamicFields[Head(fields).e].name
         IN  (IF ValidIdString(name) THEN <<name.s>> ELSE <<>>)
                 \o ValidNames(Tail(fields))

\* part_006: candidateId for the dynamic field object o, Absent when no
\* shape matches: data.objectId, then content.fields.id, then
\* content.fields.value, then content.fields.item.fields.id
candidateId(o) ==
    CASE ~o.hasData -> Absent
      [] isValidObjectId(o.objectId) -> S(o.objectId)
      [] o.hasFields /\ ValidIdString(o.fields["id"]) -> o.fields["id"]
      [] o.hasFields /\ ValidIdString(o.fields["value"]) -> o.fields["value"]
      [] o.hasFields /\ ValidIdString(o.itemFieldsId) -> o.itemFieldsId
      [] OTHER -> Absent

\* part_004 extractWrapperValue(fields)
extractWrapperValue(o) ==
    IF NonEmptyString(o.fields["value"]) THEN o.fields["value"] ELSE Absent

ItemIdOrder == <<"item_id", "itemId", "id", "item">>

\* part_004 extractItemId(fields): the first field of the list that holds a
\* non-empty string, or null
extractItemId(o) ==
    LET hits == { k \in DOMAIN ItemIdOrder :
                    NonEmptyString(o.fields[ItemIdOrder[k]]) }
    IN  IF hits = {} THEN Absent
        ELSE o.fields[ItemIdOrder[CHOOSE k \in hits : \A j \in hits : k <= j]]

\* part_004 extractNFTFromFieldObject: the string it hands to
\* fetchNFTFromId, Absent when it returns without fetching
FetchTarget(o) ==
    CASE ~o.hasData \/ ~o.hasFields -> Absent
      [] extractWrapperValue(o) # Absent -> extractWrapperValue(o)
      [] isNFTObject(o) -> Absent
      [] OTHER -> extractItemId(o)

\* part_004 extractNFTFromFieldObject returns the field object itself
IsItselfNFT(o) ==
    /\ o.hasData /\ o.hasFields
    /\ extractWrapperValue(o) = Absent
    /\ isNFTObject(o)

\* batchFetchObjects(ids) when the request resolves:
\* objects.filter(obj => obj.data).map(obj => obj.data)
RECURSIVE FetchedObjects(_)
FetchedObjects(ids) ==
    IF ids = <<>> THEN <<>>
    ELSE (IF ObjectOf(Head(ids)).hasData THEN <<ObjectOf(Head(ids))>>
                                         ELSE <<>>)
             \o FetchedObjects(Tail(ids))

\* the loop over fetchedObjects: one NFTInfo for each that isNFTObject
RECURSIVE PotentialNFTs(_, _)
PotentialNFTs(objects, kiosk) ==
    IF objects = <<>> THEN <<>>
    ELSE LET obj == Head(objects)
         IN  (IF isNFTObject(obj)
                THEN <<NFTInfo(obj.objectId, obj.type, obj.display, kiosk)>>
                ELSE <<>>)
                 \o PotentialNFTs(Tail(objects), kiosk)

\* processDynamicFields after field j - 1: the next field, or past the
\* last one the batch request (return [] when there is nothing to fetch);
\* part_004 has fetched each item on its own and returns nfts
FieldsNext(fields, j, ids, found) ==
    CASE j <= Len(fields) -> pc' = "field" /\ UNCHANGED <<outcome, result>>
      [] j > Len(fields) /\ build = "p004" ->
            pc' = "done" /\ outcome' = "returned" /\ result' = found
      [] j > Len(fields) /\ build # "p004" /\ ids = <<>> ->
            pc' = "done" /\ outcome' = "returned" /\ result' = <<>>
      [] OTHER -> pc' = "batch" /\ UNCHANGED <<outcome, result>>

KioskCatchRethrows(error) ==
    /\ pc' = "done"
    /\ outcome' = "threw"
    /\ thrown' = error
    /\ UNCHANGED result

\* getKioskNFTs: catch (error) { ... return []; }
KioskCatch(error) ==
    /\ pc' = "done"
    /\ outcome' = "returned"
    /\ result' = <<>>
    /\ UNCHANGED thrown

----------------------------------------------------------------------------
(* How a pagination loop ends, by the function that runs it.               *)

\* the loop is left by while (cursor) or by break: its function returns
\* value; getUserKiosks hands it to processKioskOwnerCaps, and the
\* discovery entry points hold it as allOwnedObjects
LoopEnd(value) ==
    CASE entry \in Loops ->
            /\ pc' = "done"
            /\ outcome' = "returned"
            /\ result' = value
            /\ UNCHANGED <<thrown, procVars, itemVars>>
      [] entry = "getUserKiosks" ->
            /\ candidates' = value
            /\ idx' = 1
            /\ kiosks' = <<>>
            /\ ProcessNext(value, 1, <<>>)
            /\ UNCHANGED <<thrown, itemVars>>
      [] entry = "getKioskNFTs" ->
            LET ids == IF build = "lib" THEN ValidNames(value) ELSE <<>>
                j == IF build = "lib" THEN Len(value) + 1 ELSE 1
            IN  /\ dynamicFields' = value
                /\ fieldIdx' = j
                /\ itemIdsToFetch' = ids
                /\ nfts' = <<>>
                /\ FieldsNext(value, j, ids, <<>>)
                /\ UNCHANGED <<thrown, procVars, parentId, contents, nftObj>>
      [] OTHER ->
            /\ pc' = "fetched"
            /\ result' = value
            /\ UNCHANGED <<outcome, thrown, procVars, itemVars>>

LoopAbortReturnsPartial(error) ==
    /\ pc' = "done"
    /\ outcome' = "returned"
    /\ result' = LoopValue(allObjects)
    /\ UNCHANGED <<thrown, procVars, itemVars>>

\* withRetry threw error inside the loop: nothing catches it there, and
\* the catch block of an entry point turns it into a KioskDiscoveryError
\* (unless the entry point has thrown already: the second rejection of a
\* Promise.all is dropped)
LoopAbort(error) ==
    IF entry = "getKioskNFTs"
      THEN KioskCatch(error) /\ UNCHANGED <<procVars, itemVars>>
      ELSE /\ pc' = "done"
           /\ outcome' = "threw"
           /\ thrown' = CASE outcome # "running" -> thrown
                           [] entry \in Loops -> error
                           [] OTHER -> DiscoveryError(error)
           /\ UNCHANGED <<result, procVars, itemVars>>

\* the request of the running iteration, as the remote sees it
PageRequest ==
    /\ nCalls' = nCalls + 1
    /\ reqCursor' = RequestCursor
    /\ respBefore' = lastNext
    /\ reqDelayed' = IF i = 0 THEN sinceDelay ELSE reqDelayed

\* the remote serves the page: the rest of the iteration and the loop test
PageFetchOk ==
    /\ pc = "page" /\ loop \in Loops
    /\ LET page == pages[RequestCursor]
           items == PageItems(page.data)
           count == paginationCount + 1
       IN  /\ RetryReturn
           /\ PageRequest
           /\ nPages' = nPages + 1
           /\ lastNext' = page.next
           /\ sinceDelay' = RateDelay(cursor, page.next)
           /\ allObjects' = allObjects \o items
           /\ cursor' = page.next
           /\ paginationCount' = count
           /\ collectedNFTs' = StreamCollected(items)
           /\ progress' = StreamProgress(items)
           /\ IF LoopContinues(page.next, count)
                THEN UNCHANGED ctlVars
                ELSE LoopEnd(LoopValue(allObjects \o items))
    /\ UNCHANGED <<entry, build, verdicts, kpc, kioskIdx, kiosksResult, planVars,
                   netVars, retVal, pages, loop, failures, capVars>>

\* the remote fails the request
PageFetchFail ==
    /\ pc = "page" /\ loop \in Loops
    /\ failures < MaxFailures
    /\ failures' = failures + 1
    /\ RetryCatch(RemoteError)
    /\ PageRequest
    /\ IF RetryExhausted THEN LoopAbort(ToError(RemoteError))
                         ELSE UNCHANGED ctlVars
    /\ UNCHANGED <<entry, build, extVars, retVal, pages, loop, cursor, paginationCount,
                   allObjects, nPages, lastNext, sinceDelay, progress, capVars>>

(* The remotes of the pagination specification: cursors are named in the   *)
(* order the remote first hands them out, so pages 0, 1, .. k are chained  *)
(* and the last one points at null (0) or back at one of them.             *)

MaxCursors == 2

PageData(c) ==
    CASE c = 0 -> <<1, 6>>
      [] c = 1 -> <<8, 3>>
      [] c = 2 -> <<9>>
      [] OTHER -> <<4, 6, 5>>

ChainedUpTo(f, c) == \A j \in 0..(c - 1) : f[j] = j + 1

PageRemotes ==
    { [c \in 0..MaxCursors |-> [data |-> PageData(c), next |-> f[c]]] :
        f \in { g \in [0..MaxCursors -> 0..MaxCursors] :
                  \A c \in 0..MaxCursors :
                     IF ChainedUpTo(g, c) THEN g[c] <= c + 1 ELSE g[c] = 0 } }

InitPage ==
    /\ entry \in Loops
    /\ build = IF entry = "streamWalletOwned" THEN "p006" ELSE "lib"
    /\ pc = "page"
    /\ RetryDefaults
    /\ outcome = "running"
    /\ thrown = Undefined
    /\ retVal = 0
    /\ pages \in PageRemotes
    /\ loop = entry /\ cursor = 0 /\ paginationCount = 0 /\ allObjects = <<>>
    /\ nPages = 0 /\ reqCursor = -1 /\ respBefore = 0 /\ lastNext = 0
    /\ sinceDelay = FALSE /\ reqDelayed = FALSE
    /\ result = <<>>
    /\ progress = <<>>
    /\ nCalls = 0
    /\ failures = 0
    /\ ExtIdle
    /\ CapIdle

NextPage ==
    \/ PageFetchOk
    \/ PageFetchFail

SpecPage == InitPage /\ [][NextPage]_vars

----------------------------------------------------------------------------
(* The entry points: validation of the wallet address, then the first      *)
(* stage of each.  getUserKiosks is followed to its return; of the         *)
(* discovery entry points, the fetch of the wallet's objects is.           *)

Builds == {"lib", "p004", "p006"}

\* the functions each revision exports, of those that are followed here
EntryPointsOf(b) ==
    CASE b = "lib" -> EntryPoints \ {"discoverUserKiosksAndNFTsProgressive"}
      [] b = "p004" -> {"getUserKiosks"}
      [] b = "p006" -> EntryPoints

\* the loop that fetches the wallet's objects for a discovery entry point
WalletLoop ==
    IF entry = "discoverUserKiosksAndNFTsProgressive"
      THEN "streamWalletOwned" ELSE "fetchAllOwnedObjects"

loopVars == <<pages, cursor, paginationCount, allObjects, nPages, reqCursor,
              respBefore, lastNext, sinceDelay, reqDelayed>>

\* if (!isValidWalletAddress(walletAddress)) throw new ValidationError(...);
\* the progressive discovery then starts streamWalletOwned and
\* streamKioskContents, each up to its first await
Validate ==
    /\ pc = "validate"
    /\ IF ~isValidWalletAddress(walletAddress)
         THEN /\ pc' = "done"
              /\ outcome' = "threw"
              /\ thrown' = ValidationError
              /\ UNCHANGED loop
         ELSE /\ pc' = IF entry = "getUserKiosks" THEN "primary" ELSE "page"
              /\ loop' = IF entry = "getUserKiosks" THEN loop ELSE WalletLoop
              /\ UNCHANGED <<outcome, thrown>>
    /\ kpc' = IF entry = "discoverUserKiosksAndNFTsProgressive"
                   /\ isValidWalletAddress(walletAddress)
                THEN "caps" ELSE kpc
    /\ UNCHANGED <<entry, build, verdicts, kioskIdx, kiosksResult,
                   collectedNFTs, planVars,
                   netVars, itemVars, retryVars, retVal, loopVars, result,
                   progress, nCalls, failures, capVars, procVars>>

\* suiClient.getOwnedObjects({ owner, filter: { StructType }, options })
PrimaryRequest ==
    /\ nCalls' = nCalls + 1
    /\ nFiltered' = nFiltered + 1

\* fetchKioskOwnerCaps: specificResponse.data; part_006 takes entry.data
\* out of each entry
PrimaryItems(data) == IF build = "p006" THEN Unwrap(data) ELSE MapRaw(data)

\* fetchKioskOwnerCaps: the filtered request resolves, and its response
\* goes to processKioskOwnerCaps
PrimaryOk ==
    /\ pc = "primary" /\ ~filterBroken
    /\ RetryReturn
    /\ PrimaryRequest
    /\ LET data == PrimaryItems(fpages[0].data)
       IN  /\ candidates' = data
           /\ idx' = 1
           /\ kiosks' = <<>>
           /\ ProcessNext(data, 1, <<>>)
    /\ UNCHANGED <<entry, build, extVars, itemVars, thrown, retVal, pageVars, progress, failures,
                   walletAddress, owned, fpages, kioskObjects, filterBroken,
                   primaryFailed, nObject>>

\* fetchKioskOwnerCaps: the filtered request rejects; after the last attempt
\* the catch block starts fetchAllObjectsWithFilter
PrimaryFail ==
    /\ pc = "primary"
    /\ filterBroken \/ failures < MaxFailures
    /\ failures' = IF filterBroken THEN failures ELSE failures + 1
    /\ RetryCatch(RemoteError)
    /\ PrimaryRequest
    /\ IF RetryExhausted
         THEN pc' = "page" /\ loop' = "fetchAllObjectsWithFilter"
                /\ primaryFailed' = TRUE
         ELSE UNCHANGED <<pc, loop, primaryFailed>>
    /\ UNCHANGED <<entry, build, extVars, itemVars, outcome, thrown, retVal, loopVars, result,
                   progress, walletAddress, owned, fpages, kioskObjects, filterBroken,
                   nObject, procVars>>

CapDiscardAborts ==
    /\ pc = "process"
    /\ KioskIdOfCap(candidates[idx]) = Absent
    /\ pc' = "done"
    /\ outcome' = "threw"
    /\ thrown' = DiscoveryError(TypeError)
    /\ UNCHANGED <<entry, build, extVars, itemVars, retryVars, retVal, pageVars, result, progress,
                   nCalls, failures, capVars, procVars>>

\* processKioskOwnerCap returns null for the candidate
CapDiscard ==
    /\ pc = "process"
    /\ KioskIdOfCap(candidates[idx]) = Absent
    /\ idx' = idx + 1
    /\ ProcessNext(candidates, idx + 1, kiosks)
    /\ UNCHANGED <<entry, build, extVars, itemVars, retryVars, thrown, retVal, pageVars, progress,
                   nCalls, failures, capVars, candidates, kiosks>>

\* suiClient.getObject({ id: kioskId, options })
ObjectRequest ==
    /\ nCalls' = nCalls + 1
    /\ nObject' = nObject + 1

\* getKioskItemCount resolves: kiosks.push({ id, ownerCapId, itemCount })
CapCountOk ==
    /\ pc = "process"
    /\ KioskIdOfCap(candidates[idx]) # Absent
    /\ RetryReturn
    /\ ObjectRequest
    /\ LET x == candidates[idx]
           ks == Append(kiosks, KioskInfo(x, KioskItemCount(KioskIdOfCap(x).s)))
       IN  /\ kiosks' = ks
           /\ idx' = idx + 1
           /\ ProcessNext(candidates, idx + 1, ks)
    /\ UNCHANGED <<entry, build, extVars, itemVars, thrown, retVal, pageVars, progress, failures,
                   walletAddress, owned, fpages, kioskObjects, filterBroken,
                   primaryFailed, nFiltered, candidates>>

CapCountFailDrops ==
    /\ pc = "process"
    /\ KioskIdOfCap(candidates[idx]) # Absent
    /\ failures < MaxFailures
    /\ failures' = failures + 1
    /\ RetryCatch(RemoteError)
    /\ ObjectRequest
    /\ IF RetryExhausted
         THEN /\ idx' = idx + 1
              /\ ProcessNext(candidates, idx + 1, kiosks)
              /\ UNCHANGED kiosks
         ELSE UNCHANGED <<pc, outcome, result, idx, kiosks>>
    /\ UNCHANGED <<entry, build, extVars, itemVars, thrown, retVal, pageVars, progress,
                   walletAddress, owned, fpages, kioskObjects, filterBroken,
                   primaryFailed, nFiltered, candidates>>

\* the getObject request rejects; after the last attempt the catch block of
\* processKioskOwnerCap returns the kiosk with itemCount 0
CapCountFail ==
    /\ pc = "process"
    /\ KioskIdOfCap(candidates[idx]) # Absent
    /\ failures < MaxFailures
    /\ failures' = failures + 1
    /\ RetryCatch(RemoteError)
    /\ ObjectRequest
    /\ IF RetryExhausted
         THEN LET ks == Append(kiosks, KioskInfo(candidates[idx], 0))
              IN  /\ kiosks' = ks
                  /\ idx' = idx + 1
                  /\ ProcessNext(candidates, idx + 1, ks)
         ELSE UNCHANGED <<pc, outcome, result, idx, kiosks>>
    /\ UNCHANGED <<entry, build, extVars, itemVars, thrown, retVal, pageVars, progress,
                   walletAddress, owned, fpages, kioskObjects, filterBroken,
                   primaryFailed, nFiltered, candidates>>

(* The wallets and remotes of the entry-point specification.               *)

MaxOwned == 3             \* objects a wallet owns

\* "0x" + 64 hex digits, "0x1", "0x" + 65 hex digits, 64 hex digits without
\* prefix, "0x" + 64 characters that are not all hex digits, ""
Addresses ==
    { Id(1), Str(TRUE, 1, TRUE, 1), Str(TRUE, ID_HEX_LEN + 1, TRUE, 1),
      Str(FALSE, ID_HEX_LEN, TRUE, 1), Str(TRUE, ID_HEX_LEN, FALSE, 1),
      EmptyStr }

RECURSIVE SetToSeq(_)
\* the members of a set of entries in increasing order
SetToSeq(T) ==
    IF T = {} THEN <<>>
    ELSE LET m == CHOOSE e \in T : \A f \in T : e <= f
         IN  <<m>> \o SetToSeq(T \ {m})

\* a remote delivers all its entries bare or all of them inside wrappers
OwnedLists ==
    { SetToSeq(T) :
        T \in { U \in SUBSET EntryIds :
                  /\ Cardinality(U) <= MaxOwned
                  /\ \A e, f \in U : Entries[e].wrapped = Entries[f].wrapped } }

RECURSIVE SplitsOf(_)
\* the ways the remote can cut a list into consecutive non-empty pages
SplitsOf(list) ==
    IF list = <<>> THEN { <<>> }
    ELSE UNION { { <<SubSeq(list, 1, k)>> \o rest :
                     rest \in SplitsOf(SubSeq(list, k + 1, Len(list))) } :
                 k \in 1..Len(list) }

\* the paginated answers for a list cut into chunks
AsPages(chunks) ==
    IF chunks = <<>> THEN NoPages
    ELSE [c \in 0..(Len(chunks) - 1) |->
            [data |-> chunks[c + 1],
             next |-> IF c + 1 < Len(chunks) THEN c + 1 ELSE 0]]

\* remote: filter { StructType: CONFIG.KIOSK_OWNER_CAP_TYPE }
StructTypeFilter(list) ==
    SelectSeq(list, LAMBDA e : Entries[e].type.name = KIOSK_OWNER_CAP_TYPE.name)

InitCaps ==
    /\ build \in Builds
    /\ entry \in EntryPointsOf(build)
    /\ pc = "validate"
    /\ RetryDefaults
    /\ outcome = "running"
    /\ thrown = Undefined
    /\ retVal = 0
    /\ walletAddress \in Addresses
    /\ owned \in OwnedLists
    /\ pages \in { AsPages(chunks) : chunks \in SplitsOf(owned) }
    /\ fpages \in IF entry = "getUserKiosks"
                    THEN { AsPages(chunks) :
                             chunks \in SplitsOf(StructTypeFilter(owned)) }
                    ELSE { NoPages }
    /\ filterBroken \in IF entry = "getUserKiosks" THEN BOOLEAN ELSE {FALSE}
    /\ kioskObjects = KnownKiosks
    /\ primaryFailed = FALSE
    /\ nFiltered = 0 /\ nObject = 0
    /\ candidates = <<>> /\ idx = 0 /\ kiosks = <<>>
    /\ ItemIdle
    /\ PageIdle
    /\ result = <<>>
    /\ progress = <<>>
    /\ nCalls = 0
    /\ failures = 0
    /\ ExtIdle

NextCaps ==
    \/ Validate
    \/ PrimaryOk
    \/ PrimaryFail
    \/ PageFetchOk
    \/ PageFetchFail
    \/ CapDiscard
    \/ CapCountOk
    \/ CapCountFail

SpecCaps == InitCaps /\ [][NextCaps]_vars

----------------------------------------------------------------------------
(* C1: an operation that fails on every invocation is invoked exactly      *)
(* `attempts` times (3 by default) and withRetry then throws the very      *)
(* value the last invocation threw.  This is the claim as written; it      *)
(* fails when the operation throws a value that is not an Error.           *)
C1_RethrowsLastValueUnchanged ==
    (entry = "withRetry" /\ outcome = "threw" /\ attempts = RETRY_ATTEMPTS)
        => (opCalls = RETRY_ATTEMPTS /\ thrown = lastThrown)

(* C1 (amended): the operation is invoked exactly `attempts` times, and    *)
(* the value thrown is the last invocation's own value when that value is  *)
(* an Error instance, and otherwise a new Error carrying String(value).    *)
C1_RethrowsLastError ==
    (entry = "withRetry" /\ outcome = "threw" /\ attempts = RETRY_ATTEMPTS)
        => /\ opCalls = RETRY_ATTEMPTS
           /\ lastThrown.isError => thrown = lastThrown
           /\ ~lastThrown.isError =>
                 /\ thrown.isError
                 /\ thrown.ref = "new Error"
                 /\ thrown.message = lastThrown.message

C1_Witness ==
    /\ entry = "withRetry" /\ outcome = "threw" /\ attempts = RETRY_ATTEMPTS
    /\ opCalls = RETRY_ATTEMPTS
    /\ lastThrown.isError
    /\ thrown = lastThrown

----------------------------------------------------------------------------
(* What the remote of a pagination run serves, computed from `pages`.      *)

NextOf == [c \in DOMAIN pages |-> pages[c].next]

\* the last page of the chain 0, 1, .. that the remote hands out in order
ChainLast ==
    CHOOSE m \in DOMAIN pages : ChainedUpTo(NextOf, m) /\ NextOf[m] # m + 1

\* the page served to the k-th request (k = 0, 1, ..) of a loop that follows
\* the cursors
PageOfRequest(k) ==
    IF k <= ChainLast THEN k
    ELSE NextOf[ChainLast]
            + ((k - NextOf[ChainLast]) % (ChainLast - NextOf[ChainLast] + 1))

RECURSIVE ChainItems(_, _)
\* the items of the pages from cursor c up to the first page whose
\* nextCursor is null, at most n pages
ChainItems(c, n) ==
    IF n = 0 THEN <<>>
    ELSE PageItems(pages[c].data)
            \o (IF NextOf[c] = 0 THEN <<>> ELSE ChainItems(NextOf[c], n - 1))

RECURSIVE ServedLen(_)
\* the number of items in the first MAX_PAGINATION_LIMIT pages of a remote
\* whose cursor never becomes null, summed over the pages 0..c
ServedLen(c) ==
    IF c < 0 THEN 0
    ELSE ServedLen(c - 1)
            + Cardinality({k \in 0..(MAX_PAGINATION_LIMIT - 1) : PageOfRequest(k) = c})
                * Len(PageItems(pages[c].data))

CeilingHit == pc = "done" /\ nPages = MAX_PAGINATION_LIMIT /\ lastNext # 0

(* C2: against a remote whose cursor never becomes null every pagination   *)
(* loop stops: it never fetches more than MAX_PAGINATION_LIMIT pages, and  *)
(* once that many are fetched it returns (it does not throw) what it has   *)
(* accumulated from them; until then it can always take its next step.     *)
C2_PaginationCeiling ==
    entry \in Loops =>
        /\ nPages <= MAX_PAGINATION_LIMIT
        /\ pc = "page" => nPages < MAX_PAGINATION_LIMIT
        /\ pc = "done" \/ ENABLED NextPage
        /\ CeilingHit =>
              /\ outcome = "returned"
              /\ result = LoopValue(allObjects)
              /\ Len(allObjects) = ServedLen(ChainLast)

C2_Witness ==
    /\ entry = "fetchKioskDynamicFields" /\ CeilingHit
    /\ outcome = "returned" /\ Len(result) > MAX_PAGINATION_LIMIT
    /\ failures > 0

(* C3: in a pagination loop the first request carries the null cursor and  *)
(* every later one the nextCursor of the page before it; the loop goes on  *)
(* only after a non-null nextCursor and, when it ends on a null one, the   *)
(* accumulated list is the concatenation of the pages from the first up to *)
(* that page, in order.                                                    *)
C3_CursorOrder ==
    entry \in Loops =>
        /\ nCalls > 0 => reqCursor = respBefore
        /\ (pc = "page" /\ nPages > 0) => lastNext # 0
        /\ (pc = "done" /\ outcome = "returned") =>
              (lastNext = 0 \/ nPages = MAX_PAGINATION_LIMIT)
        /\ (pc = "done" /\ outcome = "returned" /\ lastNext = 0) =>
              /\ allObjects = ChainItems(0, nPages)
              /\ nPages = ChainLast + 1
              /\ result = LoopValue(allObjects)

C3_Witness ==
    /\ entry = "fetchAllOwnedObjects" /\ pc = "done" /\ outcome = "returned"
    /\ nPages = 3 /\ lastNext = 0 /\ reqCursor = 2
    /\ result = <<Inner(6), Inner(8), Inner(9)>>

(* C4: when a page request has failed on all RETRY_ATTEMPTS attempts the   *)
(* loop's function throws the error of the last attempt: it returns no     *)
(* list and issues no further request.                                     *)
C4_ExhaustedPageAborts ==
    (entry \in Loops /\ tries = RETRY_ATTEMPTS) =>
        /\ pc = "done"
        /\ outcome = "threw"
        /\ thrown = lastThrown
        /\ thrown \in ErrorInstances
        /\ result = <<>>
        /\ ~ENABLED NextPage

C4_Witness ==
    /\ entry = "fetchAllOwnedObjects" /\ outcome = "threw"
    /\ nPages = 1 /\ allObjects # <<>> /\ tries = RETRY_ATTEMPTS
    /\ thrown = TypeError

----------------------------------------------------------------------------
(* C5: every entry point that takes a wallet address rejects an address    *)
(* that is not "0x" followed by exactly 64 hexadecimal digits with a       *)
(* ValidationError, before any remote call.  This is the claim as written; *)
(* part_006 accepts "0x" followed by 1 to 64 hexadecimal digits.           *)
C5_StrictFormatRejected ==
    (entry \in EntryPoints /\ pc # "validate"
       /\ ~isValidWalletAddressStrict(walletAddress))
        => (pc = "done" /\ outcome = "threw" /\ thrown = ValidationError
              /\ nCalls = 0)

(* C5 (amended): every entry point rejects, with a ValidationError and     *)
(* before any remote call, an address that is not "0x" followed by         *)
(* hexadecimal digits only, exactly 64 of them, or in part_006 between 1   *)
(* and 64 of them; no remote call is made before the address is validated. *)
C5_RevisionFormatRejected ==
    entry \in EntryPoints =>
        LET a == walletAddress
            shortest == IF build = "p006" THEN 1 ELSE ID_HEX_LEN
            matches == a.pre /\ a.hex /\ a.n >= shortest /\ a.n <= ID_HEX_LEN
        IN  /\ pc = "validate" => nCalls = 0
            /\ (pc # "validate" /\ ~matches) =>
                  /\ pc = "done" /\ outcome = "threw"
                  /\ thrown = ValidationError
                  /\ nCalls = 0

C5_Witness ==
    /\ entry = "discoverUserKiosksAndNFTsProgressive"
    /\ walletAddress = Str(TRUE, ID_HEX_LEN + 1, TRUE, 1)
    /\ pc = "done" /\ outcome = "threw" /\ thrown = ValidationError
    /\ nCalls = 0

----------------------------------------------------------------------------
(* What fetchAllObjectsWithFilter and processKioskOwnerCaps make of the    *)
(* whole list of the wallet's objects: the (kiosk, capability) pairs.      *)

CapPairs(objects) ==
    LET caps == SelectSeq(objects, LAMBDA x : KioskIdOfCap(x) # Absent)
    IN  [j \in DOMAIN caps |->
            [id |-> KioskIdOfCap(caps[j]).s, ownerCapId |-> ObjectIdOf(caps[j])]]

FallbackAlone ==
    CapPairs(FilterKioskCaps(IF build = "p006" THEN Unwrap(owned)
                                               ELSE MapRaw(owned)))

\* the (kiosk, capability) pairs of a list of KioskInfo
PairsOf(infos) ==
    [j \in DOMAIN infos |->
        [id |-> infos[j].id, ownerCapId |-> infos[j].ownerCapId]]

\* getOwnedObjects requests without a filter
UnfilteredRequests == nCalls - nFiltered - nObject

(* C6: when the filtered query has failed on every attempt, what           *)
(* getUserKiosks returns lists exactly the capabilities that the           *)
(* unfiltered scan of the wallet's objects produces, in its order; and if  *)
(* getUserKiosks throws instead, it is with KIOSK_DISCOVERY_FAILED.        *)
C6_FallbackResult ==
    (entry = "getUserKiosks" /\ primaryFailed /\ pc = "done") =>
        /\ outcome = "returned" => PairsOf(result) = FallbackAlone
        /\ outcome = "threw" =>
              /\ thrown.ref = "KIOSK_DISCOVERY_FAILED"
              /\ result = <<>>

C6_Witness ==
    /\ entry = "getUserKiosks" /\ filterBroken /\ primaryFailed
    /\ pc = "done" /\ outcome = "returned"
    /\ nPages = 3
    /\ owned = <<1, 3, 11>>
    /\ PairsOf(result) = << [id |-> Id(1), ownerCapId |-> Id(11)],
                            [id |-> Id(2), ownerCapId |-> Id(13)],
                            [id |-> Id(2), ownerCapId |-> Id(21)] >>

(* C7: getUserKiosks never issues more than RETRY_ATTEMPTS filtered        *)
(* requests, and once the fallback has started or an unfiltered request    *)
(* was issued exactly RETRY_ATTEMPTS filtered requests have been made: all *)
(* of them came before, none comes after.                                  *)
C7_ThreeFilteredThenFallback ==
    entry = "getUserKiosks" =>
        /\ nFiltered <= RETRY_ATTEMPTS
        /\ (primaryFailed \/ UnfilteredRequests > 0) =>
              nFiltered = RETRY_ATTEMPTS
        /\ (filterBroken /\ pc \in {"page", "process"}) => primaryFailed
        /\ UnfilteredRequests > 0 => primaryFailed

C7_Witness ==
    /\ entry = "getUserKiosks" /\ filterBroken
    /\ pc = "done" /\ outcome = "returned"
    /\ nFiltered = RETRY_ATTEMPTS
    /\ UnfilteredRequests = 2
    /\ failures = 0

(* C8: when the filtered query succeeds, getUserKiosks returns a           *)
(* capability for every capability object the wallet owns, also when the   *)
(* filtered query delivers them on more than one page.  This is the claim  *)
(* as written; fetchKioskOwnerCaps reads one page only.                    *)
C8_AllOwnedCapsResolved ==
    (entry = "getUserKiosks" /\ ~primaryFailed /\ pc = "done"
       /\ outcome = "returned")
        => LET ownedCaps == CapPairs(PrimaryItems(StructTypeFilter(owned)))
           IN  \A j \in DOMAIN ownedCaps :
                  \E k \in DOMAIN result :
                     result[k].ownerCapId = ownedCaps[j].ownerCapId

(* C9: the kiosk id of a capability is the value of the first of the       *)
(* fields for, kiosk_id, kioskId, kiosk, id that holds a non-empty string  *)
(* in the ObjectId format.  This is the claim as written; the revisions    *)
(* read `for` only, or stop at the first non-empty string.                 *)
C9_FirstValidFieldWins ==
    (entry = "getUserKiosks" /\ pc = "done" /\ outcome = "returned")
        => \A j \in DOMAIN candidates :
              LET x == candidates[j]
                  valid == { k \in DOMAIN FieldOrder :
                               LET v == FieldOf(x, FieldOrder[k])
                               IN  /\ v.kind = "string"
                                   /\ v.s.pre /\ v.s.hex
                                   /\ v.s.n = ID_HEX_LEN }
                  first == CHOOSE k \in valid : \A m \in valid : k <= m
              IN  (HasFields(x) /\ valid # {})
                     => \E k \in DOMAIN result :
                           /\ result[k].ownerCapId = ObjectIdOf(x)
                           /\ result[k].id = FieldOf(x, FieldOrder[first]).s

(* C10: a candidate without content fields, or without an identifier in    *)
(* any of its fields, is passed over and nothing is thrown: once the       *)
(* candidates are fetched getUserKiosks returns, and every candidate whose *)
(* `for` field is a well-formed identifier is in the list with that kiosk. *)
C10_MalformedDiscarded ==
    entry = "getUserKiosks" =>
        /\ (outcome = "threw" /\ thrown # ValidationError) =>
              (candidates = <<>> /\ idx = 0)
        /\ pc = "done" /\ outcome = "returned" =>
              (idx = Len(candidates) + 1 /\ result = kiosks)
        /\ \A j \in 1..(idx - 1) :
              LET x == candidates[j]
                  isId(v) == /\ v.kind = "string"
                             /\ v.s.pre /\ v.s.hex /\ v.s.n = ID_HEX_LEN
                  listed == { k \in DOMAIN kiosks :
                                kiosks[k].ownerCapId = ObjectIdOf(x) }
              IN  /\ (HasFields(x) /\ isId(FieldOf(x, "for"))) =>
                        \E k \in listed : kiosks[k].id = FieldOf(x, "for").s
                  /\ (~HasFields(x) \/ \A f \in FieldNames : ~isId(FieldOf(x, f)))
                        => listed = {}

C10_Witness ==
    /\ entry = "getUserKiosks" /\ pc = "done" /\ outcome = "returned"
    /\ candidates = <<Raw(1), Raw(5), Raw(12)>>
    /\ PairsOf(result) = << [id |-> Id(1), ownerCapId |-> Id(11)] >>

----------------------------------------------------------------------------
(* getUserKiosks against kiosks of every shape getKioskItemCount tells     *)
(* apart.                                                                  *)

KioskShapes ==
    { KioskObject(FALSE, FALSE, NotNum("undefined"), NotNum("undefined"),
                  NotNum("undefined")),
      KioskObject(TRUE, FALSE, NotNum("undefined"), NotNum("undefined"),
                  NotNum("undefined")) }
    \cup
    { KioskObject(TRUE, TRUE, a, b, c) :
        a \in {NotNum("undefined"), Num(-1), Num(0), Num(2), NotNum("string")},
        b \in {NotNum("undefined"), Num(3), Num(-1)},
        c \in {NotNum("undefined"), Num(4), NotNum("object")} }

InitItemCount ==
    /\ build \in Builds
    /\ entry = "getUserKiosks"
    /\ pc = "validate"
    /\ RetryDefaults
    /\ outcome = "running"
    /\ thrown = Undefined
    /\ retVal = 0
    /\ walletAddress = Id(1)
    /\ owned \in { <<1, 5>>, <<6>> }
    /\ pages = AsPages(<<owned>>)
    /\ fpages = AsPages(<<StructTypeFilter(owned)>>)
    /\ filterBroken \in BOOLEAN
    /\ kioskObjects \in { [k \in 1..2 |-> shape] : shape \in KioskShapes }
    /\ primaryFailed = FALSE
    /\ nFiltered = 0 /\ nObject = 0
    /\ candidates = <<>> /\ idx = 0 /\ kiosks = <<>>
    /\ ItemIdle
    /\ PageIdle
    /\ result = <<>>
    /\ progress = <<>>
    /\ nCalls = 0
    /\ failures = 0
    /\ ExtIdle

SpecItemCount == InitItemCount /\ [][NextCaps]_vars

----------------------------------------------------------------------------
(* getUserKiosks against a remote whose unfiltered query hands its last    *)
(* page out a second time.                                                 *)

\* the pages of the chunks, then the last chunk a second time
RepeatLast(chunks) == AsPages(chunks \o <<chunks[Len(chunks)]>>)

InitRepeat ==
    /\ build \in Builds
    /\ entry = "getUserKiosks"
    /\ pc = "validate"
    /\ RetryDefaults
    /\ outcome = "running"
    /\ thrown = Undefined
    /\ retVal = 0
    /\ walletAddress = Id(1)
    /\ owned \in { list \in OwnedLists : Len(list) \in 1..2 }
    /\ pages \in { RepeatLast(chunks) : chunks \in SplitsOf(owned) }
    /\ fpages = AsPages(<<StructTypeFilter(owned)>>)
    /\ filterBroken \in BOOLEAN
    /\ kioskObjects = KnownKiosks
    /\ primaryFailed = FALSE
    /\ nFiltered = 0 /\ nObject = 0
    /\ candidates = <<>> /\ idx = 0 /\ kiosks = <<>>
    /\ ItemIdle
    /\ PageIdle
    /\ result = <<>>
    /\ progress = <<>>
    /\ nCalls = 0
    /\ failures = 0
    /\ ExtIdle

SpecRepeat == InitRepeat /\ [][NextCaps]_vars

(* C12: no two records of the list getUserKiosks returns have the same     *)
(* ownerCapId, whichever of the two queries produced the list and also     *)
(* when the remote hands a page out more than once.  This is the claim as  *)
(* written; nothing in the resolver removes a repeated object.             *)
C12_UniqueCapabilityIds ==
    (entry = "getUserKiosks" /\ pc = "done" /\ outcome = "returned") =>
        \A j, k \in DOMAIN result :
            j # k => result[j].ownerCapId # result[k].ownerCapId

----------------------------------------------------------------------------
(* C13: a failed capability fetch surfaces as one KioskDiscoveryError *)

\* the fallback scan was the last thing getUserKiosks did, and its last
\* request failed: both the filtered and the unfiltered fetch are exhausted
BothFetchesFailed ==
    /\ entry = "getUserKiosks" /\ pc = "done"
    /\ primaryFailed /\ nObject = 0
    /\ lastThrown # Undefined

\* C13: when the filtered fetch and the unfiltered fallback have both
\* exhausted their retries, getUserKiosks throws (it returns no list, not
\* even an empty one) one KioskDiscoveryError whose message carries the
\* message of the error caught, with the code KIOSK_DISCOVERY_FAILED and a
\* context holding the wallet address; it throws nothing else after a valid
\* address.
C13_SingleDiscoveryError ==
    /\ BothFetchesFailed =>
          /\ outcome = "threw"
          /\ result = <<>>
          /\ thrown.isError
          /\ thrown.code = "KIOSK_DISCOVERY_FAILED"
          /\ thrown.message = <<"Failed to fetch kiosks: ", lastThrown.message>>
          /\ thrown.context = [walletAddress |-> walletAddress]
    /\ (entry = "getUserKiosks" /\ pc = "done" /\ outcome = "threw") =>
          \/ ~isValidWalletAddress(walletAddress) /\ thrown = ValidationError
          \/ isValidWalletAddress(walletAddress) /\ BothFetchesFailed

C13_Witness ==
    /\ BothFetchesFailed
    /\ outcome = "threw"
    /\ filterBroken
    /\ nPages = 1
    /\ thrown.message = <<"Failed to fetch kiosks: ", "Failed to fetch">>
    /\ thrown.context = [walletAddress |-> Id(1)]

----------------------------------------------------------------------------
(* getKioskNFTs(kioskId): fetchKioskDynamicFields, then                    *)
(* processDynamicFields.  part_004 fetches the fields of a batch of ten    *)
(* concurrently and keeps their results in field order; the requests are   *)
(* independent, and they are followed here one field after the other.      *)

\* new ValidationError('Invalid kiosk ID format', 'kioskId')
KioskValidationError ==
    [isError |-> TRUE, ref |-> "VALIDATION_ERROR",
     message |-> "Invalid kiosk ID format",
     code |-> "VALIDATION_ERROR", context |-> [field |-> "kioskId"]]

\* if (!isValidObjectId(kioskId)) throw new ValidationError(...)
KioskValidate ==
    /\ pc = "validate" /\ entry = "getKioskNFTs"
    /\ IF ~isValidObjectId(parentId)
         THEN /\ pc' = "done"
              /\ outcome' = "threw"
              /\ thrown' = KioskValidationError
              /\ UNCHANGED loop
         ELSE /\ pc' = "page"
              /\ loop' = "fetchKioskDynamicFields"
              /\ UNCHANGED <<outcome, thrown>>
    /\ UNCHANGED <<entry, build, extVars, itemVars, retryVars, retVal, loopVars, result,
                   progress, nCalls, failures, capVars, procVars>>

\* the dynamic field object of the field the for loop is at
FieldObjectAt == DynamicFields[dynamicFields[fieldIdx].e].object

\* the request for the field's object resolves.  part_006
\* (getDynamicFieldObject) notes candidateId; part_004 (getObject) goes
\* through extractNFTFromFieldObject, which ends in fetchNFTFromId, in the
\* field object itself, or in null
FieldFetchOk ==
    /\ pc = "field"
    /\ RetryReturn
    /\ nCalls' = nCalls + 1
    /\ LET o == FieldObjectAt
           j == fieldIdx + 1
       IN  IF build = "p006"
             THEN LET c == candidateId(o)
                      ids == IF c = Absent THEN itemIdsToFetch
                             ELSE Append(itemIdsToFetch, c.s)
                  IN  /\ itemIdsToFetch' = ids
                      /\ fieldIdx' = j
                      /\ FieldsNext(dynamicFields, j, ids, nfts)
                      /\ UNCHANGED nfts
             ELSE /\ UNCHANGED itemIdsToFetch
                  /\ CASE IsItselfNFT(o) ->
                            LET found == Append(nfts,
                                    NFTInfo(o.objectId, o.type, o.display,
                                            parentId))
                            IN  /\ nfts' = found
                                /\ fieldIdx' = j
                                /\ FieldsNext(dynamicFields, j, <<>>, found)
                       [] ~IsItselfNFT(o) /\ ValidIdString(FetchTarget(o)) ->
                            /\ pc' = "nft"
                            /\ UNCHANGED <<outcome, result, fieldIdx, nfts>>
                       [] OTHER ->
                            /\ fieldIdx' = j
                            /\ FieldsNext(dynamicFields, j, <<>>, nfts)
                            /\ UNCHANGED nfts
    /\ UNCHANGED <<entry, build, extVars, thrown, retVal, pageVars, progress, failures,
                   capVars, procVars, contents, nftObj, parentId,
                   dynamicFields>>

FieldFetchFailAborts ==
    /\ pc = "field"
    /\ failures < MaxFailures
    /\ failures' = failures + 1
    /\ RetryCatch(RemoteError)
    /\ nCalls' = nCalls + 1
    /\ IF RetryExhausted
         THEN KioskCatch(ToError(RemoteError)) /\ UNCHANGED fieldIdx
         ELSE UNCHANGED <<pc, outcome, result, thrown, fieldIdx>>
    /\ UNCHANGED <<entry, build, extVars, retVal, pageVars, progress,
                   capVars, procVars, contents, nftObj, parentId,
                   dynamicFields,
                   itemIdsToFetch, nfts>>

\* the request for the field's object rejects; after the last attempt the
\* catch around it (part_006: inside the for loop; part_004: in
\* processDynamicField) drops the field and the loop goes on
FieldFetchFail ==
    /\ pc = "field"
    /\ failures < MaxFailures
    /\ failures' = failures + 1
    /\ RetryCatch(RemoteError)
    /\ nCalls' = nCalls + 1
    /\ IF RetryExhausted
         THEN /\ fieldIdx' = fieldIdx + 1
              /\ FieldsNext(dynamicFields, fieldIdx + 1, itemIdsToFetch, nfts)
         ELSE UNCHANGED <<pc, outcome, result, fieldIdx>>
    /\ UNCHANGED <<entry, build, extVars, thrown, retVal, pageVars, progress,
                   capVars, procVars, contents, nftObj, parentId,
                   dynamicFields,
                   itemIdsToFetch, nfts>>

\* part_004 fetchNFTFromId: getObject resolves; null when the response has
\* no data or no type, else { id: nftId, type, display, kioskId }
NftFetchOk ==
    /\ pc = "nft"
    /\ RetryReturn
    /\ nCalls' = nCalls + 1
    /\ LET nftId == FetchTarget(FieldObjectAt).s
           obj == ObjectOf(nftId)
           found == IF obj.hasData /\ obj.type # NoType
                      THEN Append(nfts, NFTInfo(nftId, obj.type, obj.display,
                                                parentId))
                      ELSE nfts
       IN  /\ nfts' = found
           /\ fieldIdx' = fieldIdx + 1
           /\ FieldsNext(dynamicFields, fieldIdx + 1, <<>>, found)
    /\ UNCHANGED <<entry, build, extVars, thrown, retVal, pageVars, progress, failures,
                   capVars, procVars, contents, nftObj, parentId,
                   dynamicFields,
                   itemIdsToFetch>>

\* part_004 fetchNFTFromId: getObject rejects; after the last attempt its
\* catch block returns null
NftFetchFail ==
    /\ pc = "nft"
    /\ failures < MaxFailures
    /\ failures' = failures + 1
    /\ RetryCatch(RemoteError)
    /\ nCalls' = nCalls + 1
    /\ IF RetryExhausted
         THEN /\ fieldIdx' = fieldIdx + 1
              /\ FieldsNext(dynamicFields, fieldIdx + 1, <<>>, nfts)
         ELSE UNCHANGED <<pc, outcome, result, fieldIdx>>
    /\ UNCHANGED <<entry, build, extVars, thrown, retVal, pageVars, progress,
                   capVars, procVars, contents, nftObj, parentId,
                   dynamicFields,
                   itemIdsToFetch, nfts>>

\* the ids of a list of NFTInfo
IdsOf(infos) == { infos[k].id : k \in DOMAIN infos }

RECURSIVE DirectNFTs(_, _)
\* kiosk-discovery.ts discoverUserKiosksAndNFTs, step 2: the owned objects
\* that are NFTs, each id once, after the items of acc
DirectNFTs(objects, acc) ==
    IF objects = <<>> THEN acc
    ELSE LET o == OwnedObject(Head(objects))
         IN  DirectNFTs(Tail(objects),
                 IF isNFTObject(o) /\ o.objectId \notin IdsOf(acc)
                   THEN Append(acc, NFTInfo(o.objectId, o.type, o.display,
                                            DIRECT_OWNERSHIP))
                   ELSE acc)

RECURSIVE NamesToFetch(_, _, _)
\* step 3: Array.from(allNftIdsInKiosks), the valid names of the fields
\* that are not in processedNftIds, each once, in the order of insertion
NamesToFetch(fields, processed, acc) ==
    IF fields = <<>> THEN acc
    ELSE LET name == DynamicFields[Head(fields).e].name
             fresh == /\ ValidIdString(name)
                      /\ name.s \notin processed
                      /\ \A k \in DOMAIN acc : acc[k] # name.s
         IN  NamesToFetch(Tail(fields), processed,
                          IF fresh THEN Append(acc, name.s) ELSE acc)

RECURSIVE Flatten(_)
Flatten(lists) ==
    IF lists = <<>> THEN <<>> ELSE Head(lists) \o Flatten(Tail(lists))

\* kioskIdByNftId.get(id) || 'unknown_kiosk': the map is filled kiosk by
\* kiosk, so the last kiosk that has a field named id stays in it
KioskIdByNftId(id, ks, fieldLists) ==
    LET holders == { k \in DOMAIN ks :
                       \E j \in DOMAIN fieldLists[k] :
                           LET name == DynamicFields[fieldLists[k][j].e].name
                           IN  ValidIdString(name) /\ name.s = id }
    IN  IF holders = {} THEN UNKNOWN_KIOSK
        ELSE ks[CHOOSE k \in holders : \A j \in holders : j <= k].id

RECURSIVE KioskNFTs(_, _)
\* the loop over nftObjects: an NFT that is not in processedNftIds is
\* pushed with the kiosk of the map
KioskNFTs(objects, acc) ==
    IF objects = <<>> THEN acc
    ELSE LET o == Head(objects)
         IN  KioskNFTs(Tail(objects),
                 IF isNFTObject(o) /\ o.objectId \notin IdsOf(acc)
                   THEN Append(acc,
                          NFTInfo(o.objectId, o.type, o.display,
                                  KioskIdByNftId(o.objectId, kiosks,
                                                 dynamicFields)))
                   ELSE acc)

\* return { kiosks, nfts }
DiscoveryResult(ks, items) == [kiosks |-> ks, nfts |-> items]

\* what the caller of batchFetchObjects does with the objects it returns:
\* processDynamicFields returns the NFTs among them, and
\* discoverUserKiosksAndNFTs adds those it has not seen and returns
BatchEnd(objects) ==
    IF entry = "batchFetchObjects"
      THEN /\ pc' = "done"
           /\ outcome' = "returned"
           /\ result' = objects
           /\ UNCHANGED nfts
      ELSE LET found == IF entry = "getKioskNFTs"
                          THEN PotentialNFTs(objects, parentId)
                          ELSE KioskNFTs(objects, nfts)
           IN  /\ nfts' = found
               /\ pc' = "done"
               /\ outcome' = "returned"
               /\ result' = IF entry = "getKioskNFTs" THEN found
                             ELSE DiscoveryResult(kiosks, found)

\* multiGetObjects({ ids: objectIds, options }): the ids of the request
MultiGetIds(objectIds) == objectIds

\* batchFetchObjects: multiGetObjects resolves, and the caller goes
\* through the fetched objects
BatchFetchOk ==
    /\ pc = "batch"
    /\ RetryReturn
    /\ nCalls' = nCalls + 1
    /\ reqIds' = MultiGetIds(itemIdsToFetch)
    /\ BatchEnd(FetchedObjects(itemIdsToFetch))
    /\ UNCHANGED <<entry, build, verdicts, progVars, planVars, currentNetwork,
                   currentClient, calls, thrown, retVal, pageVars, progress, failures,
                   capVars, procVars, contents, nftObj, parentId,
                   dynamicFields, fieldIdx, itemIdsToFetch>>

\* batchFetchObjects: multiGetObjects rejects; after the last attempt its
\* catch block returns []
BatchFetchFail ==
    /\ pc = "batch"
    /\ failures < MaxFailures
    /\ failures' = failures + 1
    /\ RetryCatch(RemoteError)
    /\ nCalls' = nCalls + 1
    /\ reqIds' = MultiGetIds(itemIdsToFetch)
    /\ IF RetryExhausted THEN BatchEnd(<<>>)
                         ELSE UNCHANGED <<pc, outcome, result, nfts>>
    /\ UNCHANGED <<entry, build, verdicts, progVars, planVars, currentNetwork,
                   currentClient, calls, thrown, retVal, pageVars, progress,
                   capVars, procVars, contents, nftObj, parentId,
                   dynamicFields, fieldIdx, itemIdsToFetch>>

MaxFields == 2            \* dynamic fields of a kiosk

\* the dynamic fields a kiosk can have, in the remote's order
FieldLists ==
    { list \in UNION { [1..n -> FieldIds] : n \in 0..MaxFields } :
        \A j, k \in DOMAIN list : j # k => list[j] # list[k] }

InitKiosk ==
    /\ build \in Builds
    /\ entry = "getKioskNFTs"
    /\ pc = "validate"
    /\ RetryDefaults
    /\ outcome = "running"
    /\ thrown = Undefined
    /\ retVal = 0
    /\ parentId \in {Id(1), BadStr(1), EmptyStr}
    /\ pages \in { AsPages(chunks) :
                     chunks \in UNION { SplitsOf(list) : list \in FieldLists } }
    /\ dynamicFields = <<>> /\ fieldIdx = 0
    /\ itemIdsToFetch = <<>> /\ nfts = <<>>
    /\ contents = <<>> /\ nftObj = <<>>
    /\ kioskObjects = KnownKiosks
    /\ walletAddress = EmptyStr /\ owned = <<>> /\ fpages = NoPages
    /\ filterBroken = FALSE /\ primaryFailed = FALSE
    /\ nFiltered = 0 /\ nObject = 0
    /\ candidates = <<>> /\ idx = 0 /\ kiosks = <<>>
    /\ PageIdle
    /\ result = <<>>
    /\ progress = <<>>
    /\ nCalls = 0
    /\ failures = 0
    /\ ExtIdle

NextKiosk ==
    \/ KioskValidate
    \/ PageFetchOk
    \/ PageFetchFail
    \/ FieldFetchOk
    \/ FieldFetchFail
    \/ NftFetchOk
    \/ NftFetchFail
    \/ BatchFetchOk
    \/ BatchFetchFail

SpecKiosk == InitKiosk /\ [][NextKiosk]_vars

----------------------------------------------------------------------------
(* C14: getKioskNFTs degrades to an empty list *)

\* fetchKioskDynamicFields threw (no field was looked at), or the batch
\* request of processDynamicFields failed on every attempt
ContainerFailure ==
    /\ entry = "getKioskNFTs" /\ pc = "done"
    /\ lastThrown # Undefined
    /\ \/ fieldIdx = 0
       \/ build # "p004" /\ itemIdsToFetch # <<>>

----------------------------------------------------------------------------
(* C15: the order in which a dynamic field is resolved *)

\* the chain as documented: the field object's own id, then the nested
\* value, then the nested id, then the id of the nested item; the first
\* that is an identifier, Absent when none is
ChainValueFirst(o) ==
    CASE ~o.hasData -> Absent
      [] isValidObjectId(o.objectId) -> S(o.objectId)
      [] o.hasFields /\ ValidIdString(o.fields["value"]) -> o.fields["value"]
      [] o.hasFields /\ ValidIdString(o.fields["id"]) -> o.fields["id"]
      [] o.hasFields /\ ValidIdString(o.itemFieldsId) -> o.itemFieldsId
      [] OTHER -> Absent

RECURSIVE ChainIds(_)
\* the ids that chain gives for a list of fields, unresolved fields left out
ChainIds(fields) ==
    IF fields = <<>> THEN <<>>
    ELSE LET c == ChainValueFirst(DynamicFields[Head(fields).e].object)
         IN  (IF c = Absent THEN <<>> ELSE <<c.s>>) \o ChainIds(Tail(fields))

\* C15: every dynamic field is resolved to the first identifier among its
\* own object id, the nested value, the nested id and the nested item id,
\* in this order; a field with a valid value and a valid id resolves to
\* the value.  (Runs without remote failures: no field is dropped.)
C15_ValueBeforeId ==
    (entry = "getKioskNFTs" /\ failures = 0) =>
        /\ (build = "p006" /\ fieldIdx > 0) =>
              itemIdsToFetch =
                  ChainIds(SubSeq(dynamicFields, 1, fieldIdx - 1))
        /\ (build = "p004" /\ pc = "nft") =>
              FetchTarget(FieldObjectAt) = ChainValueFirst(FieldObjectAt)

----------------------------------------------------------------------------
(* C16: a dynamic field that cannot be resolved is left out *)

RECURSIVE IsSubSeq(_, _)
\* a is b with some elements left out
IsSubSeq(a, b) ==
    CASE a = <<>> -> TRUE
      [] a # <<>> /\ b = <<>> -> FALSE
      [] OTHER -> IF Head(a) = Head(b) THEN IsSubSeq(Tail(a), Tail(b))
                                       ELSE IsSubSeq(a, Tail(b))

RECURSIVE CandidateIds(_)
\* part_006: itemIdsToFetch when every request for a field object resolves
CandidateIds(fields) ==
    IF fields = <<>> THEN <<>>
    ELSE LET c == candidateId(DynamicFields[Head(fields).e].object)
         IN  (IF c = Absent THEN <<>> ELSE <<c.s>>)
                 \o CandidateIds(Tail(fields))

RECURSIVE ExtractedNFTs(_, _)
\* part_004: nfts when every request resolves
ExtractedNFTs(fields, kiosk) ==
    IF fields = <<>> THEN <<>>
    ELSE LET o == DynamicFields[Head(fields).e].object
             t == FetchTarget(o)
             obj == ObjectOf(t.s)
         IN  (CASE IsItselfNFT(o) ->
                      <<NFTInfo(o.objectId, o.type, o.display, kiosk)>>
                [] ~IsItselfNFT(o) /\ ValidIdString(t)
                       /\ obj.hasData /\ obj.type # NoType ->
                      <<NFTInfo(t.s, obj.type, obj.display, kiosk)>>
                [] OTHER -> <<>>)
                 \o ExtractedNFTs(Tail(fields), kiosk)

\* the fields the for loop has dealt with
FieldsDone == SubSeq(dynamicFields, 1, fieldIdx - 1)

\* withRetry calls that can have thrown so far: each takes RETRY_ATTEMPTS
\* failures
MaxDropped == failures \div RETRY_ATTEMPTS

----------------------------------------------------------------------------
(* isNFTObject(obj) on its own *)

ClassifyTypes ==
    {NoType, CoinType, KIOSK_OWNER_CAP_TYPE, DynamicFieldType, NftType,
     UpperNftType, MixedNftType, CollectibleType, MixedCollectibleType}

ClassifyDisplays ==
    {NoDisplay} \cup { Display(name, image_url) : name, image_url \in BOOLEAN }

InitClassify ==
    /\ build \in Builds
    /\ entry = "isNFTObject"
    /\ pc = "classify"
    /\ nftObj \in { [objectId |-> Id(31), hasData |-> TRUE, type |-> type,
                     display |-> display] :
                       type \in ClassifyTypes, display \in ClassifyDisplays }
    /\ attempts = RETRY_ATTEMPTS /\ delayMs = RETRY_DELAY
    /\ RetryIdle
    /\ outcome = "running"
    /\ thrown = Undefined
    /\ retVal = 0
    /\ pages = NoPages
    /\ PageIdle
    /\ kioskObjects = KnownKiosks
    /\ walletAddress = EmptyStr /\ owned = <<>> /\ fpages = NoPages
    /\ filterBroken = FALSE /\ primaryFailed = FALSE
    /\ nFiltered = 0 /\ nObject = 0
    /\ candidates = <<>> /\ idx = 0 /\ kiosks = <<>>
    /\ parentId = EmptyStr /\ dynamicFields = <<>> /\ fieldIdx = 0
    /\ itemIdsToFetch = <<>> /\ nfts = <<>> /\ contents = <<>>
    /\ result = <<>>
    /\ progress = <<>>
    /\ nCalls = 0
    /\ failures = 0
    /\ ExtIdle

\* return hasNFTType || hasDisplayData, or false without a type
Classify ==
    /\ pc = "classify"
    /\ pc' = "done"
    /\ outcome' = "returned"
    /\ result' = isNFTObject(nftObj)
    /\ verdicts' = Append(verdicts, isNFTObject(nftObj))
    /\ UNCHANGED <<entry, build, progVars, planVars, netVars, itemVars,
                   retryVars, thrown, retVal, pageVars, progress, nCalls,
                   failures, capVars, procVars>>

NextClassify == Classify

SpecClassify == InitClassify /\ [][NextClassify]_vars

----------------------------------------------------------------------------
(* C17: what counts as a content item *)

\* a marker of a type tag in lower case
ToLowerCase(marker) ==
    CASE marker \in {"nft", "NFT", "Nft"} -> "nft"
      [] marker \in {"collectible", "Collectible"} -> "collectible"
      [] OTHER -> marker

\* the type tag contains 'nft' or 'collectible' in any spelling
HasMarkerIgnoringCase(type) ==
    \E marker \in type.has : ToLowerCase(marker) \in {"nft", "collectible"}

\* C17: an object is a content item exactly when its type tag contains a
\* content marker, compared without regard to case, or it carries display
\* metadata with a name or an image; so an object with display metadata
\* and no type tag is one, and so is one of type ...::Nft or
\* ...::Collectible.
C17_MarkerAnyCaseOrDisplay ==
    (entry = "isNFTObject" /\ pc = "done") =>
        (result <=> (HasMarkerIgnoringCase(nftObj.type)
                        \/ hasDisplayData(nftObj.display)))

----------------------------------------------------------------------------
(* discoverUserKiosksAndNFTs(walletAddress), from the owned objects on.    *)
(* kiosk-discovery.ts resolves the capabilities (the calls of              *)
(* processKioskOwnerCap are started together and are independent; they     *)
(* are followed one after the other), lists the NFTs the wallet owns, asks *)
(* for the dynamic fields of every kiosk and fetches the objects their     *)
(* names point to.  part_006 returns the owned objects as they are.        *)

\* part_006: return { kiosks: [{ id: 'wallet', ... }], nfts }
DiscoverSimplified ==
    /\ pc = "fetched" /\ build = "p006"
    /\ entry = "discoverUserKiosksAndNFTs"
    /\ LET items == WalletNFTs(result)
           ks == << [id |-> WALLET, ownerCapId |-> WALLET,
                     itemCount |-> Len(items)] >>
       IN  /\ nfts' = items
           /\ kiosks' = ks
           /\ result' = DiscoveryResult(ks, items)
    /\ pc' = "done"
    /\ outcome' = "returned"
    /\ UNCHANGED <<entry, build, extVars, retryVars, thrown, retVal, pageVars, progress,
                   nCalls, failures, capVars, candidates, idx, contents,
                   nftObj, parentId, dynamicFields, fieldIdx, itemIdsToFetch>>

\* kiosk-discovery.ts: kioskCaps = allOwnedObjects.filter(obj =>
\* (obj.type || '').includes(CONFIG.KIOSK_OWNER_CAP_TYPE)), then
\* processKioskOwnerCap for each
DiscoverCaps ==
    /\ pc = "fetched" /\ build = "lib"
    /\ entry = "discoverUserKiosksAndNFTs"
    /\ LET kioskCaps ==
               SelectSeq(result, LAMBDA x :
                   includes(TypeOf(x), KIOSK_OWNER_CAP_TYPE.name))
       IN  /\ candidates' = kioskCaps
           /\ idx' = 1
           /\ kiosks' = <<>>
           /\ ProcessNext(kioskCaps, 1, <<>>)
    /\ UNCHANGED <<entry, build, extVars, itemVars, retryVars, thrown, retVal, pageVars,
                   progress, nCalls, failures, capVars>>

\* no kiosk was found: the directly owned NFTs are the result
ContentsNone ==
    /\ pc = "contents" /\ kiosks = <<>>
    /\ LET direct == DirectNFTs(result, <<>>)
       IN  /\ nfts' = direct
           /\ result' = DiscoveryResult(kiosks, direct)
    /\ pc' = "done"
    /\ outcome' = "returned"
    /\ UNCHANGED <<entry, build, extVars, retryVars, thrown, retVal, pageVars, progress,
                   nCalls, failures, capVars, procVars, contents, nftObj,
                   parentId, dynamicFields, fieldIdx, itemIdsToFetch>>

\* Promise.all(kiosks.map(kiosk => suiClient.getDynamicFields({ parentId:
\* kiosk.id }))) resolves: one request for each kiosk, without cursor and
\* outside withRetry; then batchFetchObjects, which makes no request for
\* an empty list
KioskFieldsOk ==
    /\ pc = "contents" /\ kiosks # <<>>
    /\ nCalls' = nCalls + Len(kiosks)
    /\ LET lists == [k \in DOMAIN kiosks |->
                        MapRaw(contents[kiosks[k].id.tag])]
           direct == DirectNFTs(result, <<>>)
           ids == NamesToFetch(Flatten(lists), IdsOf(direct), <<>>)
       IN  /\ dynamicFields' = lists
           /\ nfts' = direct
           /\ itemIdsToFetch' = ids
           /\ IF ids = <<>>
                THEN /\ pc' = "done"
                     /\ outcome' = "returned"
                     /\ result' = DiscoveryResult(kiosks, direct)
                ELSE pc' = "batch" /\ UNCHANGED <<outcome, result>>
    /\ UNCHANGED <<entry, build, extVars, retryVars, thrown, retVal, pageVars, progress,
                   failures, capVars, procVars, contents, nftObj, parentId,
                   fieldIdx>>

\* one of the getDynamicFields requests rejects: Promise.all rejects, and
\* the catch block throws the KioskDiscoveryError
KioskFieldsFail ==
    /\ pc = "contents" /\ kiosks # <<>>
    /\ failures < MaxFailures
    /\ failures' = failures + 1
    /\ nCalls' = nCalls + Len(kiosks)
    /\ pc' = "done"
    /\ outcome' = "threw"
    /\ thrown' = DiscoveryError(RemoteError)
    /\ UNCHANGED <<entry, build, extVars, itemVars, retryVars, retVal, pageVars, result,
                   progress, capVars, procVars>>

\* what a kiosk can hold in the discovery runs
ContentLists == {<<>>, <<1>>, <<6>>, <<1, 6>>}

\* the objects of a wallet in the discovery runs, all inside wrappers
DiscoverLists ==
    { SetToSeq(T) :
        T \in { U \in SUBSET {6, 8, 10, 13, 14, 15} :
                  Cardinality(U) <= MaxOwned } }

InitDiscover ==
    /\ build \in {"lib", "p006"}
    /\ entry = "discoverUserKiosksAndNFTs"
    /\ pc = "validate"
    /\ RetryDefaults
    /\ outcome = "running"
    /\ thrown = Undefined
    /\ retVal = 0
    /\ walletAddress = Id(1)
    /\ owned \in DiscoverLists
    /\ pages \in { AsPages(chunks) : chunks \in SplitsOf(owned) }
                 \cup { RepeatLast(chunks) :
                          chunks \in SplitsOf(owned) \ { <<>> } }
    /\ fpages = NoPages
    /\ filterBroken = FALSE
    /\ kioskObjects = KnownKiosks
    /\ contents \in IF build = "lib" THEN [1..2 -> ContentLists]
                                      ELSE { <<<<>>, <<>>>>, <<<<1>>, <<>>>> }
    /\ primaryFailed = FALSE
    /\ nFiltered = 0 /\ nObject = 0
    /\ candidates = <<>> /\ idx = 0 /\ kiosks = <<>>
    /\ parentId = EmptyStr /\ dynamicFields = <<>> /\ fieldIdx = 0
    /\ itemIdsToFetch = <<>> /\ nfts = <<>> /\ nftObj = <<>>
    /\ PageIdle
    /\ result = <<>>
    /\ progress = <<>>
    /\ nCalls = 0
    /\ failures = 0
    /\ ExtIdle

NextDiscover ==
    \/ Validate
    \/ PageFetchOk
    \/ PageFetchFail
    \/ DiscoverSimplified
    \/ DiscoverCaps
    \/ CapDiscard
    \/ CapCountOk
    \/ CapCountFail
    \/ ContentsNone
    \/ KioskFieldsOk
    \/ KioskFieldsFail
    \/ BatchFetchOk
    \/ BatchFetchFail

SpecDiscover == InitDiscover /\ [][NextDiscover]_vars

----------------------------------------------------------------------------
(* C18: no item twice in a discovery result *)

\* C18: in the result of discoverUserKiosksAndNFTs no two items have the
\* same id, whatever the remote delivers: an object on two pages, in two
\* kiosks, or both in a kiosk and in the wallet.
C18_UniqueItemIds ==
    (entry = "discoverUserKiosksAndNFTs" /\ pc = "done"
        /\ outcome = "returned") =>
        \A j, k \in DOMAIN result.nfts :
            result.nfts[j].id = result.nfts[k].id => j = k

----------------------------------------------------------------------------
(* C19: an item found in a kiosk and in the wallet *)

\* a kiosk of the result has a dynamic field that names the object id, and
\* the object is an NFT
HeldByKiosk(id) ==
    /\ \E k \in DOMAIN dynamicFields : \E j \in DOMAIN dynamicFields[k] :
           LET name == DynamicFields[dynamicFields[k][j].e].name
           IN  ValidIdString(name) /\ name.s = id
    /\ ObjectOf(id).hasData /\ isNFTObject(ObjectOf(id))

\* C19: an item that a kiosk of the wallet holds is listed with the id of
\* a kiosk as its kioskId, never with the mark of direct ownership, also
\* when the wallet's own objects contain it too.
C19_KioskEntryKept ==
    (entry = "discoverUserKiosksAndNFTs" /\ pc = "done"
        /\ outcome = "returned") =>
        \A k \in DOMAIN result.nfts :
            HeldByKiosk(result.nfts[k].id) =>
                isValidObjectId(result.nfts[k].kioskId)

----------------------------------------------------------------------------
(* C20: two kiosks, one item in the first, one item in the wallet *)

\* the wallet owns the capabilities of kiosk 1 and kiosk 2 and one NFT;
\* kiosk 1 holds one other NFT, kiosk 2 nothing; the remote is healthy and
\* serves every object once
ScenarioA ==
    /\ entry = "discoverUserKiosksAndNFTs"
    /\ owned = <<6, 10, 14>>
    /\ \E chunks \in SplitsOf(owned) : pages = AsPages(chunks)
    /\ contents = << <<1>>, <<>> >>
    /\ failures = 0

\* C20: in that scenario the result has 2 kiosks and 2 items, one item in
\* kiosk 1 and the other marked as directly owned.
C20_ScenarioA ==
    (ScenarioA /\ pc = "done") =>
        /\ outcome = "returned"
        /\ Len(result.kiosks) = 2
        /\ Len(result.nfts) = 2
        /\ \E j, k \in DOMAIN result.nfts :
              /\ result.nfts[j].kioskId = Id(1)
              /\ result.nfts[k].kioskId = DIRECT_OWNERSHIP

----------------------------------------------------------------------------
(* C21: the failure of one kiosk's contents *)

\* the ids of the NFTs among the objects the remote lists for the wallet
OwnedNFTIds ==
    { Entries[owned[k]].objectId :
        k \in { j \in DOMAIN owned :
                  isNFTObject(OwnedObject(Inner(owned[j]))) } }

\* the capabilities are resolved: validation and the fetch of the wallet's
\* objects are over, and at least one kiosk was found
CapabilitiesResolved ==
    /\ entry = "discoverUserKiosksAndNFTs"
    /\ build = "lib"
    /\ kiosks # <<>>

\* C21: once the address is validated and the capabilities are fetched, a
\* discovery run does not throw, whatever the requests for the contents of
\* the kiosks do, and its result lists every NFT the wallet owns directly.
\* This is the claim as written; discoverUserKiosksAndNFTs asks for the
\* dynamic fields of all kiosks in one Promise.all, outside withRetry.
C21_ContainerFailureNotFatal ==
    (CapabilitiesResolved /\ pc = "done") =>
        /\ outcome = "returned"
        /\ OwnedNFTIds \subseteq IdsOf(result.nfts)

----------------------------------------------------------------------------
(* discoverUserKiosksAndNFTsProgressive(walletAddress, onProgress) of      *)
(* part_006.  streamWalletOwned is the pagination loop above;              *)
(* streamKioskContents is followed from one onProgress call to the next:   *)
(* the calls it awaits (getUserKiosks, fetchKioskDynamicFields,            *)
(* processDynamicFields) are followed request by request in the            *)
(* specifications of their own, and here each is one step that resolves    *)
(* or rejects.  Their requests are not counted in nCalls.                  *)

RECURSIVE KiosksFrom(_)
\* processKioskOwnerCaps(candidates) when every getObject request resolves
KiosksFrom(cands) ==
    IF cands = <<>> THEN <<>>
    ELSE LET x == Head(cands)
         IN  (IF KioskIdOfCap(x) = Absent THEN <<>>
              ELSE <<KioskInfo(x, KioskItemCount(KioskIdOfCap(x).s))>>)
                 \o KiosksFrom(Tail(cands))

\* what getUserKiosks(walletAddress) returns: the capabilities of the
\* filtered query, or of the unfiltered scan when the remote rejects the
\* filter
UserKiosks ==
    KiosksFrom(IF filterBroken
                 THEN FilterKioskCaps(IF build = "p006" THEN Unwrap(owned)
                                                        ELSE MapRaw(owned))
                 ELSE PrimaryItems(fpages[0].data))

\* what processDynamicFields(await fetchKioskDynamicFields(kiosk.id),
\* kiosk.id) returns when every request resolves
StreamedKioskNFTs(kiosk) ==
    PotentialNFTs(
        FetchedObjects(CandidateIds(MapRaw(contents[kiosk.id.tag]))),
        kiosk.id)

\* onProgress(update)
onProgress(kind, items) == Append(progress, [kind |-> kind, items |-> items])

\* the catch block of the function (819-827) runs for the first rejection
\* of Promise.all([streamWalletOwned, streamKioskContents]) only
ProgressiveCatch(error) ==
    IF outcome = "running"
      THEN outcome' = "threw" /\ thrown' = DiscoveryError(error)
      ELSE UNCHANGED <<outcome, thrown>>

\* new KioskDiscoveryError('Failed to fetch kiosks: ...',
\* 'KIOSK_DISCOVERY_FAILED', { walletAddress }) of getUserKiosks
KiosksError(address, error) ==
    [WrapError("getUserKiosks", "KIOSK_DISCOVERY_FAILED", error)
        EXCEPT !.context = [walletAddress |-> address]]

\* kiosksResult = await getUserKiosks(walletAddress) resolves:
\* onProgress({ kiosks }) when there is one, then the for loop
StreamCapsOk ==
    /\ kpc = "caps"
    /\ LET ks == UserKiosks
       IN  /\ kiosksResult' = ks
           /\ progress' = IF Len(ks) > 0 THEN onProgress("kiosks", ks)
                                          ELSE progress
           /\ kioskIdx' = 1
           /\ kpc' = IF ks = <<>> THEN "finished" ELSE "kiosk"
    /\ UNCHANGED <<entry, build, verdicts, collectedNFTs, planVars, netVars,
                   pc, retryVars, outcome, thrown, retVal, pageVars, result,
                   nCalls, failures, capVars, procVars, itemVars>>

\* getUserKiosks throws: the remote rejects the filter and the requests
\* of the unfiltered scan fail RETRY_ATTEMPTS times.  streamKioskContents
\* rejects, and so does Promise.all
StreamCapsFail ==
    /\ kpc = "caps"
    /\ filterBroken
    /\ failures + RETRY_ATTEMPTS <= MaxFailures
    /\ failures' = failures + RETRY_ATTEMPTS
    /\ kpc' = "failed"
    /\ ProgressiveCatch(KiosksError(walletAddress, TypeError))
    /\ UNCHANGED <<entry, build, verdicts, kioskIdx, kiosksResult,
                   collectedNFTs, planVars,
                   netVars, pc, retryVars, retVal, pageVars, result, progress,
                   nCalls, capVars, procVars, itemVars>>

\* the for loop goes on with kiosk j, or streamKioskContents resolves
StreamNext(j) ==
    /\ kioskIdx' = j
    /\ kpc' = IF j <= Len(kiosksResult) THEN "kiosk" ELSE "finished"

\* the batch replaces what was collected so far
StreamPushOverwrite(kioskNfts) ==
    IF Len(kioskNfts) > 0 THEN kioskNfts ELSE collectedNFTs

\* collectedNFTs.push(...kioskNfts) of streamKioskContents, when the kiosk
\* has items
StreamPush(kioskNfts) ==
    IF Len(kioskNfts) > 0 THEN collectedNFTs \o kioskNfts ELSE collectedNFTs

\* the items of the kiosk are there: they are pushed and handed to
\* onProgress({ nfts: kioskNfts }) when there is one
StreamKioskOk ==
    /\ kpc = "kiosk"
    /\ LET kioskNfts == StreamedKioskNFTs(kiosksResult[kioskIdx])
       IN  /\ collectedNFTs' = StreamPush(kioskNfts)
           /\ progress' = IF Len(kioskNfts) > 0
                            THEN onProgress("nfts", kioskNfts) ELSE progress
    /\ StreamNext(kioskIdx + 1)
    /\ UNCHANGED <<entry, build, verdicts, kiosksResult, planVars, netVars,
                   pc, retryVars, outcome, thrown, retVal, pageVars, result,
                   nCalls, failures, capVars, procVars, itemVars>>

\* fetchKioskDynamicFields throws after RETRY_ATTEMPTS failed requests:
\* the catch block inside the for loop logs it
StreamKioskFail ==
    /\ kpc = "kiosk"
    /\ failures + RETRY_ATTEMPTS <= MaxFailures
    /\ failures' = failures + RETRY_ATTEMPTS
    /\ StreamNext(kioskIdx + 1)
    /\ UNCHANGED <<entry, build, verdicts, kiosksResult, collectedNFTs,
                   planVars, netVars, pc, retryVars, outcome, thrown, retVal,
                   pageVars, result, progress, nCalls, capVars, procVars,
                   itemVars>>

\* a promise that settles with the first of the two streams
AnyStreamResolved == pc = "fetched" \/ kpc = "finished"

\* await Promise.all([streamWalletOwned, streamKioskContents]) resolves
AllStreamsResolved == pc = "fetched" /\ kpc = "finished"

\* onProgress({ done: true, kiosks: kiosksResult }); return { kiosks:
\* kiosksResult, nfts: collectedNFTs }
ProgressiveDone ==
    /\ entry = "discoverUserKiosksAndNFTsProgressive"
    /\ outcome = "running"
    /\ AllStreamsResolved
    /\ progress' = onProgress("done", kiosksResult)
    /\ result' = DiscoveryResult(kiosksResult, collectedNFTs)
    /\ outcome' = "returned"
    /\ UNCHANGED <<entry, build, extVars, pc, retryVars, thrown, retVal,
                   pageVars, nCalls, failures, capVars, procVars, itemVars>>

InitProgressive ==
    /\ build = "p006"
    /\ entry = "discoverUserKiosksAndNFTsProgressive"
    /\ pc = "validate"
    /\ RetryDefaults
    /\ outcome = "running"
    /\ thrown = Undefined
    /\ retVal = 0
    /\ walletAddress \in {Id(1), EmptyStr}
    /\ owned \in DiscoverLists
    /\ pages \in { AsPages(chunks) : chunks \in SplitsOf(owned) }
    /\ fpages = AsPages(<<StructTypeFilter(owned)>>)
    /\ filterBroken \in BOOLEAN
    /\ kioskObjects = KnownKiosks
    /\ contents \in [1..2 -> {<<>>, <<2>>}]
    /\ primaryFailed = FALSE
    /\ nFiltered = 0 /\ nObject = 0
    /\ candidates = <<>> /\ idx = 0 /\ kiosks = <<>>
    /\ parentId = EmptyStr /\ dynamicFields = <<>> /\ fieldIdx = 0
    /\ itemIdsToFetch = <<>> /\ nfts = <<>> /\ nftObj = <<>>
    /\ PageIdle
    /\ result = <<>>
    /\ progress = <<>>
    /\ nCalls = 0
    /\ failures = 0
    /\ ExtIdle

NextProgressive ==
    \/ Validate
    \/ PageFetchOk
    \/ PageFetchFail
    \/ StreamCapsOk
    \/ StreamCapsFail
    \/ StreamKioskOk
    \/ StreamKioskFail
    \/ ProgressiveDone

SpecProgressive == InitProgressive /\ [][NextProgressive]_vars

----------------------------------------------------------------------------
(* C22: the last update of a progressive run *)

\* C22: when discoverUserKiosksAndNFTsProgressive has returned, the last
\* update handed to onProgress is the one with done: true; no other
\* update of the run has done: true, so it came once, after every kiosks
\* update and every batch of items, and nothing came after it; and a run
\* that has not returned has delivered no such update.
C22_DoneLastExactlyOnce ==
    entry = "discoverUserKiosksAndNFTsProgressive" =>
        /\ outcome = "returned" =>
              /\ Len(progress) > 0
              /\ progress[Len(progress)].kind = "done"
        /\ \A k \in DOMAIN progress :
              progress[k].kind = "done" =>
                  k = Len(progress) /\ outcome = "returned"

C22_Witness ==
    /\ entry = "discoverUserKiosksAndNFTsProgressive"
    /\ outcome = "returned"
    /\ Len(progress) = 5
    /\ progress[1].kind = "nfts" /\ progress[1].items[1].kioskId = WALLET
    /\ progress[2].kind = "kiosks"
    /\ progress[3].kind = "nfts" /\ progress[3].items[1].kioskId = Id(1)
    /\ progress[4].kind = "nfts" /\ progress[4].items[1].kioskId = WALLET
    /\ progress[5].kind = "done"

----------------------------------------------------------------------------
(* The bulk transfer planner: parseWalletAddresses(input) and              *)
(* prepareBulkTransferRecipients(walletAddresses) of kiosk-discovery.ts,   *)
(* called on its own or, as bulkTransferNFTs and the transfer form do,     *)
(* on what parseWalletAddresses returned.  The getUserKiosks call of a     *)
(* recipient is one step that resolves or rejects; it is followed request  *)
(* by request in the specification of the capability resolver.             *)

\* BULK_TRANSFER_CONFIG
MAX_RECIPIENTS == 100
BATCH_SIZE == 10

MaxAddresses == 3         \* entries of a short recipient list

\* a part of the input between two commas: the string s, with white space
\* around it when pad
Token(s, pad) == [s |-> s, pad |-> pad]

\* addr.trim()
trim(token) == token.s

\* the length of a string
Length(s) == IF s.pre THEN s.n + 2 ELSE s.n

\* addresses.filter(addr => valid = isValidWalletAddress(addr))
SelectAddresses(addresses, valid) ==
    SelectSeq(addresses, LAMBDA addr : isValidWalletAddress(addr) = valid)

\* input.split(',').map(addr => addr.trim()).filter(addr => addr.length > 0)
TrimmedTokens(tokens) ==
    SelectSeq([k \in DOMAIN tokens |-> trim(tokens[k])],
              LAMBDA addr : Length(addr) > 0)

\* the entries that are not empty, well-formed or not
ValidAddressesUnfiltered(tokens) == TrimmedTokens(tokens)

\* the validAddresses of parseWalletAddresses(input)
ValidAddresses(tokens) == SelectAddresses(TrimmedTokens(tokens), TRUE)

\* the recipients counted against MAX_RECIPIENTS: all entries supplied
CountedAddressesSupplied(tokens) == TrimmedTokens(tokens)

\* the recipients counted against MAX_RECIPIENTS: validAddresses
CountedAddresses(tokens) == ValidAddresses(tokens)

\* validAddresses.length > BULK_TRANSFER_CONFIG.MAX_RECIPIENTS
TooManyRecipients(tokens) == Len(CountedAddresses(tokens)) > MAX_RECIPIENTS

\* new ValidationError('Too many recipients. Maximum allowed: 100',
\* 'recipients')
TooManyError ==
    [isError |-> TRUE, ref |-> "VALIDATION_ERROR",
     message |-> "Too many recipients. Maximum allowed: 100",
     code |-> "VALIDATION_ERROR", context |-> [field |-> "recipients"]]

\* remote: the capabilities the wallet at an address owns, as the filtered
\* query returns them
WalletCaps(address) ==
    CASE address.tag % 3 = 1 -> <<1, 11>>
      [] address.tag % 3 = 2 -> <<>>
      [] OTHER -> <<11>>

\* what getUserKiosks(address) returns when its requests resolve
KiosksOf(address) == KiosksFrom(PrimaryItems(WalletCaps(address)))

\* a recipient that names the kiosk returned last
PendingRecipientLast(address, ks) ==
    [walletAddress |-> address,
     kioskId |-> IF Len(ks) > 0 THEN S(ks[Len(ks)].id) ELSE Absent,
     ownerCapId |-> IF Len(ks) > 0 THEN S(ks[Len(ks)].ownerCapId) ELSE Absent,
     hasKiosk |-> Len(ks) > 0,
     status |-> "pending",
     error |-> Absent]

\* the recipient returned when getUserKiosks resolved with kiosks
PendingRecipient(address, ks) ==
    [walletAddress |-> address,
     kioskId |-> IF Len(ks) > 0 THEN S(ks[1].id) ELSE Absent,
     ownerCapId |-> IF Len(ks) > 0 THEN S(ks[1].ownerCapId) ELSE Absent,
     hasKiosk |-> Len(ks) > 0,
     status |-> "pending",
     error |-> Absent]

\* the recipient returned by the catch block:
\* error instanceof Error ? error.message : String(error)
FailedRecipient(address, error) ==
    [walletAddress |-> address,
     kioskId |-> Absent,
     ownerCapId |-> Absent,
     hasKiosk |-> FALSE,
     status |-> "failed",
     error |-> [kind |-> "string", s |-> error.message]]

\* getUserKiosks(address) throws: the ValidationError of its first lines,
\* or the KioskDiscoveryError of its catch block when the remote fails
LookupFails(address) ==
    ~isValidWalletAddress(address) \/ address \in unreachable

LookupError(address) ==
    IF ~isValidWalletAddress(address) THEN ValidationError
    ELSE KiosksError(address, TypeError)

\* a recipient whose failed lookup is taken for an empty wallet
PreparedRecipientSwallow(address) ==
    PendingRecipient(address,
                     IF LookupFails(address) THEN <<>> ELSE KiosksOf(address))

\* the body of batch.map(async (walletAddress) => ...)
PreparedRecipient(address) ==
    IF LookupFails(address) THEN FailedRecipient(address, LookupError(address))
    ELSE PendingRecipient(address, KiosksOf(address))

\* walletAddresses.slice(i, i + BULK_TRANSFER_CONFIG.BATCH_SIZE)
Batch(addresses, start) ==
    SubSeq(addresses, start + 1,
           IF start + BATCH_SIZE < Len(addresses) THEN start + BATCH_SIZE
                                                  ELSE Len(addresses))

DELAY_BETWEEN_BATCHES == 2000

\* the delay is awaited after every batch
DelayFollowsAlways(start, n) == start < n

\* if (i + BULK_TRANSFER_CONFIG.BATCH_SIZE < walletAddresses.length)
DelayFollows(start, n) == start + BATCH_SIZE < n

\* await Promise.all(batch.map(...)): the results in the order of the batch
BatchResults(batch) == [k \in DOMAIN batch |-> PreparedRecipient(batch[k])]
\* what the planner and the transaction builder leave alone
txRest == <<build, verdicts, progVars, netVars, retryVars, retVal,
            pageVars, progress, nCalls, failures, capVars, procVars,
            itemVars>>

\* what the planner's actions leave alone
planRest == <<txRest, txVars>>

\* parseWalletAddresses(input) runs to its end
ParseAddresses ==
    /\ entry = "parseWalletAddresses"
    /\ pc = "parse"
    /\ IF TooManyRecipients(input)
         THEN /\ outcome' = "threw"
              /\ thrown' = TooManyError
              /\ UNCHANGED result
         ELSE /\ outcome' = "returned"
              /\ result' = ValidAddresses(input)
              /\ UNCHANGED thrown
    /\ pc' = "done"
    /\ UNCHANGED <<entry, planVars, planRest>>

\* bulkTransferNFTs (1135-1157) and the transfer form
\* (TransferInterface.tsx 143-152) hand the addresses parseWalletAddresses
\* returned, when there is one, to prepareBulkTransferRecipients
CallPrepare ==
    /\ entry = "parseWalletAddresses"
    /\ pc = "done"
    /\ outcome = "returned"
    /\ Len(result) > 0
    /\ entry' = "prepareBulkTransferRecipients"
    /\ walletAddresses' = result
    /\ result' = <<>>
    /\ outcome' = "running"
    /\ pc' = "batch"
    /\ UNCHANGED <<input, batchStart, recipients, lookups, unreachable,
                   joinVars, thrown, planRest>>

\* one turn of the for loop: the getUserKiosks calls of the batch are
\* started in its order, and recipients.push(...batchResults) follows
\* when all of them have settled
PlanBatch ==
    /\ entry = "prepareBulkTransferRecipients"
    /\ pc = "batch"
    /\ batchStart < Len(walletAddresses)
    /\ LET batch == Batch(walletAddresses, batchStart)
       IN  /\ lookups' = lookups \o batch
           /\ recipients' = recipients \o BatchResults(batch)
    /\ waits' = IF DelayFollows(batchStart, Len(walletAddresses))
                  THEN Append(waits, DELAY_BETWEEN_BATCHES) ELSE waits
    /\ batchStart' = batchStart + BATCH_SIZE
    /\ UNCHANGED <<entry, pc, outcome, thrown, result, input,
                   walletAddresses, unreachable, inFlight, settled,
                   reordered, planRest>>

\* the for loop is over: return recipients
PlanReturn ==
    /\ entry = "prepareBulkTransferRecipients"
    /\ pc = "batch"
    /\ ~(batchStart < Len(walletAddresses))
    /\ result' = recipients
    /\ outcome' = "returned"
    /\ pc' = "done"
    /\ UNCHANGED <<entry, thrown, planVars, planRest>>

\* "0x" + 64 hex digits (three of them), a string that is no address, "0x1"
PlanAddresses == {Id(1), Id(2), Id(3), BadStr(1), Str(TRUE, 1, TRUE, 1)}

PlanTokens ==
    { Token(s, FALSE) : s \in PlanAddresses \cup {EmptyStr} }
        \cup { Token(Id(1), TRUE), Token(EmptyStr, TRUE) }

\* n distinct well-formed addresses
Ids(n) == [k \in 1..n |-> Id(k)]

\* the input that names the addresses, without white space
TokensOf(addresses) == [k \in DOMAIN addresses |-> Token(addresses[k], FALSE)]

\* recipient lists around the maximum: 100 and 101 distinct addresses;
\* 100 of them and one entry that is no address; 100 of them and the
\* first one again
LongLists ==
    { Ids(MAX_RECIPIENTS), Ids(MAX_RECIPIENTS + 1),
      Ids(MAX_RECIPIENTS) \o <<BadStr(1)>>,
      Ids(MAX_RECIPIENTS) \o <<Id(1)>> }

ShortLists == UNION { [1..n -> PlanAddresses] : n \in 0..MaxAddresses }

ShortInputs == UNION { [1..n -> PlanTokens] : n \in 1..MaxAddresses }

InitPlanner ==
    /\ build = "lib"
    /\ \/ /\ entry = "prepareBulkTransferRecipients"
          /\ pc = "batch"
          /\ input = <<>>
          /\ walletAddresses \in ShortLists \cup LongLists
       \/ /\ entry = "parseWalletAddresses"
          /\ pc = "parse"
          /\ input \in ShortInputs \cup { TokensOf(l) : l \in LongLists }
          /\ walletAddresses = <<>>
    /\ unreachable \in SUBSET {Id(2), Id(3)}
    /\ batchStart = 0 /\ recipients = <<>> /\ lookups = <<>>
    /\ JoinIdle /\ TxIdle
    /\ RetryDefaults
    /\ outcome = "running"
    /\ thrown = Undefined
    /\ retVal = 0
    /\ pages = NoPages
    /\ PageIdle
    /\ CapIdle
    /\ result = <<>>
    /\ progress = <<>>
    /\ nCalls = 0
    /\ failures = 0
    /\ verdicts = <<>> /\ ProgIdle /\ NetIdle

NextPlanner ==
    \/ ParseAddresses
    \/ CallPrepare
    \/ PlanBatch
    \/ PlanReturn

SpecPlanner == InitPlanner /\ [][NextPlanner]_vars

----------------------------------------------------------------------------
(* C23: one recipient whose capability fetch throws *)

\* C23: when prepareBulkTransferRecipients is called with three addresses
\* and getUserKiosks throws for the second one only, the call does not
\* throw: it returns three recipients in the order of the addresses, the
\* first and the third with status pending, the second with status failed
\* and a non-empty error text.
C23_OneFailedRecipient ==
    ( /\ entry = "prepareBulkTransferRecipients"
      /\ pc = "done"
      /\ Len(walletAddresses) = 3
      /\ ~LookupFails(walletAddresses[1])
      /\ LookupFails(walletAddresses[2])
      /\ ~LookupFails(walletAddresses[3]) ) =>
        /\ outcome = "returned"
        /\ Len(result) = 3
        /\ \A k \in 1..3 : result[k].walletAddress = walletAddresses[k]
        /\ result[1].status = "pending"
        /\ result[3].status = "pending"
        /\ result[2].status = "failed"
        /\ result[2].error.kind = "string"
        /\ result[2].error.s # ""

C23_Witness ==
    /\ entry = "prepareBulkTransferRecipients"
    /\ pc = "done"
    /\ input = <<>>
    /\ walletAddresses = <<Id(1), Id(2), Id(3)>>
    /\ unreachable = {Id(2)}
    /\ outcome = "returned"
    /\ result[1].status = "pending" /\ result[1].hasKiosk
    /\ result[2].status = "failed"
    /\ result[2].error = S(<<"Failed to fetch kiosks: ", "Failed to fetch">>)
    /\ result[3].status = "pending"

----------------------------------------------------------------------------
(* C24: the shape of a recipient *)

\* C24: every recipient prepareBulkTransferRecipients has prepared is of
\* one of three shapes.  When getUserKiosks threw for its address: status
\* failed, hasKiosk false, a non-empty error text.  When getUserKiosks
\* returned no kiosk: status pending, hasKiosk false, no error.  When it
\* returned at least one: status pending, hasKiosk true, no error, and
\* kioskId and ownerCapId are those of the first kiosk returned.
C24_RecipientShapes ==
    entry = "prepareBulkTransferRecipients" =>
        \A k \in DOMAIN recipients :
            LET address == walletAddresses[k]
                r == recipients[k]
            IN  /\ r.walletAddress = address
                /\ LookupFails(address) =>
                      /\ r.status = "failed"
                      /\ r.hasKiosk = FALSE
                      /\ r.kioskId = Absent /\ r.ownerCapId = Absent
                      /\ r.error.kind = "string" /\ r.error.s # ""
                /\ (~LookupFails(address) /\ KiosksOf(address) = <<>>) =>
                      /\ r.status = "pending"
                      /\ r.hasKiosk = FALSE
                      /\ r.kioskId = Absent /\ r.ownerCapId = Absent
                      /\ r.error = Absent
                /\ (~LookupFails(address) /\ KiosksOf(address) # <<>>) =>
                      /\ r.status = "pending"
                      /\ r.hasKiosk = TRUE
                      /\ r.kioskId = S(KiosksOf(address)[1].id)
                      /\ r.ownerCapId = S(KiosksOf(address)[1].ownerCapId)
                      /\ r.error = Absent

\* a wallet with two kiosks, one with none, and a string that is no address
C24_Witness ==
    /\ entry = "prepareBulkTransferRecipients"
    /\ pc = "done"
    /\ walletAddresses = <<Id(1), Id(2), BadStr(1)>>
    /\ unreachable = {}
    /\ Len(KiosksOf(Id(1))) = 2
    /\ result[1].hasKiosk /\ result[1].kioskId = S(Id(1))
    /\ result[1].ownerCapId = S(Entries[1].objectId)
    /\ result[2].status = "pending" /\ ~result[2].hasKiosk
    /\ result[3].status = "failed"
    /\ result[3].error = S("Invalid wallet address format")

----------------------------------------------------------------------------
(* C25, C26, C27: validation of the recipient list *)

\* the entries supplied to the run: the non-empty parts of the input, or
\* the addresses prepareBulkTransferRecipients was called with
SuppliedAddresses ==
    IF input # <<>> THEN TrimmedTokens(input) ELSE walletAddresses

\* C25: a run that was supplied more than MAX_RECIPIENTS addresses calls
\* getUserKiosks for none of them and ends by throwing a ValidationError.
C25_TooManyRejected ==
    Len(SuppliedAddresses) > MAX_RECIPIENTS =>
        /\ lookups = <<>>
        /\ pc = "done" =>
              /\ outcome = "threw"
              /\ thrown.code = "VALIDATION_ERROR"

\* C26: no recipient is prepared for an address that is not well-formed,
\* be it pending or failed, and getUserKiosks is not called with one.
C26_MalformedFiltered ==
    /\ \A k \in DOMAIN recipients :
          isValidWalletAddress(recipients[k].walletAddress)
    /\ \A k \in DOMAIN lookups : isValidWalletAddress(lookups[k])

\* C27: no two recipients carry the same address, getUserKiosks is not
\* called twice with the same address, and no two entries of what
\* parseWalletAddresses returned are the same.
C27_NoDuplicates ==
    /\ \A j, k \in DOMAIN recipients :
          j # k => recipients[j].walletAddress # recipients[k].walletAddress
    /\ \A j, k \in DOMAIN lookups : j # k => lookups[j] # lookups[k]
    /\ (entry = "parseWalletAddresses" /\ outcome = "returned") =>
          \A j, k \in DOMAIN result : j # k => result[j] # result[k]

\* C25 (as the code has it): parseWalletAddresses throws the
\* ValidationError 'Too many recipients. Maximum allowed: 100' exactly
\* when more than MAX_RECIPIENTS of the entries of its input are
\* well-formed addresses, repeated ones counted and malformed ones not;
\* getUserKiosks is then called for no address.
\* prepareBulkTransferRecipients has no maximum of its own: called with
\* an array of any length it returns one recipient for each address.
C25_TooManyWellFormedRejected ==
    /\ (entry = "parseWalletAddresses" /\ pc = "done") =>
          /\ lookups = <<>>
          /\ (outcome = "threw") <=>
                (Len(SelectAddresses(SuppliedAddresses, TRUE)) > MAX_RECIPIENTS)
          /\ outcome = "threw" => thrown = TooManyError
    /\ (entry = "prepareBulkTransferRecipients" /\ pc = "done") =>
          /\ outcome = "returned"
          /\ Len(result) = Len(walletAddresses)
          /\ input # <<>> => Len(walletAddresses) <= MAX_RECIPIENTS

\* 101 well-formed addresses in the input: rejected
C25_Witness ==
    /\ entry = "parseWalletAddresses"
    /\ pc = "done"
    /\ input = TokensOf(Ids(MAX_RECIPIENTS + 1))
    /\ outcome = "threw"
    /\ thrown.code = "VALIDATION_ERROR"
    /\ thrown.context.field = "recipients"
    /\ lookups = <<>>

\* C26 (as the code has it): a plan made from an input string, by
\* parseWalletAddresses and then prepareBulkTransferRecipients, has no
\* recipient for an entry that is not a well-formed address, and
\* getUserKiosks is not called with one.  prepareBulkTransferRecipients
\* called on its own with such an address returns a failed recipient for
\* it, with the error text of the ValidationError of getUserKiosks.
C26_MalformedFilteredByParse ==
    /\ input # <<>> =>
          /\ \A k \in DOMAIN recipients :
                isValidWalletAddress(recipients[k].walletAddress)
          /\ \A k \in DOMAIN lookups : isValidWalletAddress(lookups[k])
          /\ (entry = "parseWalletAddresses" /\ outcome = "returned") =>
                \A k \in DOMAIN result : isValidWalletAddress(result[k])
    /\ (input = <<>> /\ entry = "prepareBulkTransferRecipients") =>
          \A k \in DOMAIN recipients :
              ~isValidWalletAddress(walletAddresses[k]) =>
                  /\ recipients[k].walletAddress = walletAddresses[k]
                  /\ recipients[k].status = "failed"
                  /\ recipients[k].error = S("Invalid wallet address format")

\* "0x…1, abc, 0x…3" gives a plan for the first and the third entry
C26_Witness ==
    /\ entry = "prepareBulkTransferRecipients"
    /\ pc = "done"
    /\ input = <<Token(Id(1), TRUE), Token(BadStr(1), FALSE),
                 Token(Id(3), FALSE)>>
    /\ outcome = "returned"
    /\ Len(result) = 2
    /\ result[1].walletAddress = Id(1)
    /\ result[2].walletAddress = Id(3)
    /\ lookups = <<Id(1), Id(3)>>

----------------------------------------------------------------------------
(* simple-sui-client.ts: the client every remote call goes through.        *)
(* switchNetwork and getCurrentNetwork have no await: each runs in one     *)
(* step.  A method of suiClient runs up to its fetch in the step that      *)
(* calls it, and its request is then in flight until the endpoint it was   *)
(* sent to answers.                                                        *)

Networks == DOMAIN NETWORK_URLS

\* the methods of SimpleSuiClient; each sends one request, to this.url
ClientMethods ==
    {"getOwnedObjects", "getDynamicFields", "getObject", "multiGetObjects"}

MaxCalls == 4             \* switchNetwork and remote calls of a run

\* a proxy made around the client of the time the module was loaded
ProxyGetInitial(prop) == createSuiClient("mainnet")[prop]

\* suiClient: get: (_target, prop) => currentClient[prop]
ProxyGet(prop) == currentClient[prop]

\* getCurrentNetwork()
getCurrentNetwork == currentNetwork

\* an entry of calls: a switchNetwork(network), or a request of a method
\* sent to url, and the endpoint that answered it once it is done
SwitchEntry(network) ==
    [kind |-> "switchNetwork", arg |-> network, url |-> "", done |-> TRUE,
     answeredBy |-> ""]

CallEntry(method, url) ==
    [kind |-> "call", arg |-> method, url |-> url, done |-> FALSE,
     answeredBy |-> ""]

netRest == <<entry, build, pc, retryVars, outcome, thrown, retVal, pageVars,
             result, progress, nCalls, failures, capVars, procVars,
             itemVars, verdicts, progVars, planVars, reqIds>>

\* switchNetwork(network)
SwitchNetwork(network) ==
    /\ Len(calls) < MaxCalls
    /\ currentNetwork' = network
    /\ currentClient' = createSuiClient(network)
    /\ calls' = Append(calls, SwitchEntry(network))
    /\ UNCHANGED netRest

\* suiClient[method](params) up to its await: fetch(this.url, ...), where
\* this is the proxy
IssueCall(method) ==
    /\ Len(calls) < MaxCalls
    /\ calls' = Append(calls, CallEntry(method, ProxyGet("url")))
    /\ UNCHANGED <<currentNetwork, currentClient, netRest>>

\* the endpoint a request was sent to answers it
CompleteCall(k) ==
    /\ k \in DOMAIN calls
    /\ calls[k].kind = "call"
    /\ ~calls[k].done
    /\ calls' = [calls EXCEPT ![k].done = TRUE, ![k].answeredBy = calls[k].url]
    /\ UNCHANGED <<currentNetwork, currentClient, netRest>>

InitNetwork ==
    /\ build = "lib"
    /\ entry = "suiClient"
    /\ pc = "idle"
    /\ NetIdle
    /\ RetryDefaults
    /\ outcome = "running"
    /\ thrown = Undefined
    /\ retVal = 0
    /\ pages = NoPages
    /\ PageIdle
    /\ CapIdle
    /\ result = <<>>
    /\ progress = <<>>
    /\ nCalls = 0
    /\ failures = 0
    /\ verdicts = <<>> /\ ProgIdle /\ PlanIdle

NextNetwork ==
    \/ \E network \in Networks : SwitchNetwork(network)
    \/ \E method \in ClientMethods : IssueCall(method)
    \/ \E k \in 1..MaxCalls : CompleteCall(k)

SpecNetwork == InitNetwork /\ [][NextNetwork]_vars

----------------------------------------------------------------------------
(* C28: the network in force *)

\* the network of the latest switchNetwork among the first k entries of
\* calls, 'mainnet' when there is none
RECURSIVE NetworkAfter(_)
NetworkAfter(k) ==
    IF k = 0 THEN "mainnet"
    ELSE IF calls[k].kind = "switchNetwork" THEN calls[k].arg
    ELSE NetworkAfter(k - 1)

\* C28: getCurrentNetwork() returns the network of the latest
\* switchNetwork that returned; every remote call issued through suiClient
\* was sent to the endpoint of the network of the latest switchNetwork
\* before it, whatever was switched afterwards; and a call that is done
\* was answered by the endpoint it had been sent to.
C28_LastSwitchWins ==
    entry = "suiClient" =>
        /\ getCurrentNetwork = NetworkAfter(Len(calls))
        /\ \A k \in DOMAIN calls :
              calls[k].kind = "call" =>
                  /\ calls[k].url = NETWORK_URLS[NetworkAfter(k)]
                  /\ calls[k].done => calls[k].answeredBy = calls[k].url

\* a call issued on testnet is answered by testnet after the switch to
\* devnet, and the call issued after that switch goes to devnet
C28_Witness ==
    /\ entry = "suiClient"
    /\ Len(calls) = 4
    /\ calls[1] = SwitchEntry("testnet")
    /\ calls[2].kind = "call" /\ calls[2].done
    /\ calls[2].answeredBy = NETWORK_URLS["testnet"]
    /\ calls[3] = SwitchEntry("devnet")
    /\ calls[4].kind = "call" /\ calls[4].url = NETWORK_URLS["devnet"]
    /\ currentNetwork = "devnet"

----------------------------------------------------------------------------
(* C30: how often withRetry invokes the operation *)

\* C30: withRetry never invokes the operation more than attempts times.
\* When it has returned, every invocation but the last one had failed and
\* was followed by a wait, so after k failures and a success the
\* operation was invoked k + 1 times, and the value returned is the one
\* that invocation resolved with; and once withRetry has returned, the
\* operation is not invoked again.
C30_AtMostAttemptsFirstSuccess ==
    /\ [](entry = "withRetry" =>
            /\ opCalls <= attempts
            /\ outcome = "returned" =>
                  /\ opCalls = Len(delays) + 1
                  /\ opCalls = i + 1
                  /\ retVal \in 1..2)
    /\ [][(entry = "withRetry" /\ outcome = "returned") =>
              (opCalls' = opCalls /\ retVal' = retVal)]_vars

\* two failures, then the third and last attempt succeeds
C30_Witness ==
    /\ entry = "withRetry"
    /\ attempts = 3
    /\ outcome = "returned"
    /\ Len(delays) = 2
    /\ opCalls = 3
    /\ retVal = 2

----------------------------------------------------------------------------
(* C31: the waits of withRetry *)

----------------------------------------------------------------------------
(* C32: the wait between two pages *)

\* C32: a page request that follows a page of the same loop (the remote
\* had returned a next cursor before it) was issued after the loop had
\* awaited its rate-limit delay since that page.
C32_DelayBetweenPages ==
    (loop \in Loops /\ reqCursor # -1 /\ respBefore # 0) => reqDelayed

----------------------------------------------------------------------------
(* The merge of the two resolvers' item lists.                              *)

\* the (itemId, containerId) entries of a list of items
ItemPairs(infos) == { <<infos[k].id, infos[k].kioskId>> : k \in DOMAIN infos }

\* the entries the remote holds for the wallet: its own objects, and the
\* items of each of its kiosks
RemotePairs ==
    ItemPairs(WalletNFTs(Unwrap(owned)))
      \cup UNION { ItemPairs(StreamedKioskNFTs(UserKiosks[k])) :
                     k \in DOMAIN UserKiosks }

----------------------------------------------------------------------------
(* The requests for the kiosks' dynamic fields in discoverUserKiosksAndNFTs *)

\* C34: in the batch discovery the request for a kiosk's dynamic fields goes
\* through withRetry, so a run that found kiosks gives up on their contents
\* only after RETRY_ATTEMPTS failed requests, never after a single
\* transient failure.  This is the claim as written;
\* discoverUserKiosksAndNFTs calls suiClient.getDynamicFields once per
\* kiosk, outside withRetry and without following nextCursor.
C34_IndexRetried ==
    (CapabilitiesResolved /\ outcome = "threw") => failures >= RETRY_ATTEMPTS

----------------------------------------------------------------------------
(* batchFetchObjects(objectIds) on its own: one call of it, with the ids    *)
(* its callers collected.                                                   *)

MAX_DYNAMIC_FIELDS_PER_BATCH == 50

\* the longest list of a few ids the calls are followed with
MaxBatchIds == 2

\* n ids of objects the remote has no data for
UnknownIds(n) == [k \in 1..n |-> Id(100 + k)]

\* the lists batchFetchObjects is called with: every list of up to
\* MaxBatchIds ids of the known items, a list of as many ids as one page of
\* dynamic fields holds, and a list of one more
BatchIdLists ==
    UNION { [1..n -> { Items[k].objectId : k \in DOMAIN Items }] :
              n \in 0..MaxBatchIds }
      \cup { UnknownIds(MAX_DYNAMIC_FIELDS_PER_BATCH),
             UnknownIds(MAX_DYNAMIC_FIELDS_PER_BATCH + 1) }

\* if (objectIds.length === 0) return []; otherwise the try block is entered
BatchFetchCall ==
    /\ pc = "call"
    /\ entry = "batchFetchObjects"
    /\ IF Len(itemIdsToFetch) = 0
         THEN /\ pc' = "done"
              /\ outcome' = "returned"
              /\ result' = <<>>
         ELSE /\ pc' = "batch"
              /\ UNCHANGED <<outcome, result>>
    /\ UNCHANGED <<entry, build, extVars, retryVars, thrown, retVal, pageVars,
                   progress, nCalls, failures, capVars, procVars, itemVars>>

InitBatch ==
    /\ build = "lib"
    /\ entry = "batchFetchObjects"
    /\ pc = "call"
    /\ RetryDefaults
    /\ outcome = "running"
    /\ thrown = Undefined
    /\ retVal = 0
    /\ itemIdsToFetch \in BatchIdLists
    /\ parentId = EmptyStr /\ dynamicFields = <<>> /\ fieldIdx = 0
    /\ nfts = <<>> /\ contents = <<>> /\ nftObj = <<>>
    /\ pages = NoPages
    /\ PageIdle
    /\ kioskObjects = KnownKiosks
    /\ walletAddress = EmptyStr /\ owned = <<>> /\ fpages = NoPages
    /\ filterBroken = FALSE /\ primaryFailed = FALSE
    /\ nFiltered = 0 /\ nObject = 0
    /\ candidates = <<>> /\ idx = 0 /\ kiosks = <<>>
    /\ result = <<>>
    /\ progress = <<>>
    /\ nCalls = 0
    /\ failures = 0
    /\ ExtIdle

NextBatch ==
    \/ BatchFetchCall
    \/ BatchFetchOk
    \/ BatchFetchFail

SpecBatch == InitBatch /\ [][NextBatch]_vars

\* C35: no multiGetObjects request carries more ids than the batch size of
\* the configuration: a longer list goes out in several requests.  This is
\* the claim as written; batchFetchObjects hands its whole argument to one
\* multiGetObjects call.
C35_BoundedMultiGet == Len(reqIds) <= MAX_DYNAMIC_FIELDS_PER_BATCH

----------------------------------------------------------------------------
(* prepareBulkTransferRecipients followed promise by promise: the           *)
(* getUserKiosks calls of a batch are started together and settle in any    *)
(* order; Promise.all resolves when the last one has settled.               *)

\* the positions in walletAddresses of the batch that starts at start
BatchPositions(start) == DOMAIN Batch(walletAddresses, start)

\* await Promise.all(batchPromises): an array of the values in the order
\* of batchPromises, whatever the order the promises settled in
JoinResultsReversed(start) ==
    [j \in BatchPositions(start) |->
        settled[start + Len(Batch(walletAddresses, start)) + 1 - j]]

JoinResults(start) == [j \in BatchPositions(start) |-> settled[start + j]]

\* batch.map(async (walletAddress) => ...): every callback runs up to its
\* await, so getUserKiosks is called for the addresses of the batch in order
PlanStart ==
    /\ entry = "prepareBulkTransferRecipients"
    /\ pc = "batch"
    /\ batchStart < Len(walletAddresses)
    /\ lookups' = lookups \o Batch(walletAddresses, batchStart)
    /\ inFlight' = { batchStart + j : j \in BatchPositions(batchStart) }
    /\ pc' = "await"
    /\ UNCHANGED <<entry, outcome, thrown, result, input, walletAddresses,
                   batchStart, recipients, unreachable, settled, waits,
                   reordered, planRest>>

\* getUserKiosks of position k resolves or rejects, and the callback
\* returns the recipient: its promise is fulfilled
PlanSettle(k) ==
    /\ pc = "await"
    /\ k \in inFlight
    /\ inFlight' = inFlight \ {k}
    /\ settled' = [j \in DOMAIN settled \cup {k} |->
                     IF j = k THEN PreparedRecipient(walletAddresses[k])
                              ELSE settled[j]]
    /\ reordered' = (reordered \/ \E j \in inFlight : j < k)
    /\ UNCHANGED <<entry, pc, outcome, thrown, result, input,
                   walletAddresses, batchStart, recipients, lookups,
                   unreachable, waits, planRest>>

\* Promise.all resolves: recipients.push(...batchResults), and the test
\* for the delay
PlanJoin ==
    /\ pc = "await"
    /\ inFlight = {}
    /\ recipients' = recipients \o JoinResults(batchStart)
    /\ settled' = <<>>
    /\ IF DelayFollows(batchStart, Len(walletAddresses))
         THEN pc' = "delay" /\ UNCHANGED batchStart
         ELSE pc' = "batch" /\ batchStart' = batchStart + BATCH_SIZE
    /\ UNCHANGED <<entry, outcome, thrown, result, input, walletAddresses,
                   lookups, unreachable, inFlight, waits, reordered,
                   planRest>>

\* await delay(BULK_TRANSFER_CONFIG.DELAY_BETWEEN_BATCHES) is over
PlanDelay ==
    /\ pc = "delay"
    /\ waits' = Append(waits, DELAY_BETWEEN_BATCHES)
    /\ batchStart' = batchStart + BATCH_SIZE
    /\ pc' = "batch"
    /\ UNCHANGED <<entry, outcome, thrown, result, input, walletAddresses,
                   recipients, lookups, unreachable, inFlight, settled,
                   reordered, planRest>>

\* the addresses of the short lists of these runs
JoinAddresses == {Id(1), Id(2), BadStr(1)}

\* the lists the planner is followed with: every list of up to MaxAddresses
\* addresses, and one, one and a bit, and two and a bit batches of distinct
\* well-formed addresses
JoinLists ==
    UNION { [1..n -> JoinAddresses] : n \in 0..MaxAddresses }
      \cup { Ids(BATCH_SIZE), Ids(BATCH_SIZE + 1), Ids(2 * BATCH_SIZE + 1) }

InitJoin ==
    /\ build = "lib"
    /\ entry = "prepareBulkTransferRecipients"
    /\ pc = "batch"
    /\ input = <<>>
    /\ walletAddresses \in JoinLists
    /\ unreachable \in SUBSET {Id(2)}
    /\ batchStart = 0 /\ recipients = <<>> /\ lookups = <<>>
    /\ JoinIdle /\ TxIdle
    /\ RetryDefaults
    /\ outcome = "running"
    /\ thrown = Undefined
    /\ retVal = 0
    /\ pages = NoPages
    /\ PageIdle
    /\ CapIdle
    /\ result = <<>>
    /\ progress = <<>>
    /\ nCalls = 0
    /\ failures = 0
    /\ verdicts = <<>> /\ ProgIdle /\ NetIdle

NextJoin ==
    \/ PlanStart
    \/ \E k \in 1..(2 * BATCH_SIZE + 1) : PlanSettle(k)
    \/ PlanJoin
    \/ PlanDelay
    \/ PlanReturn

SpecJoin == InitJoin /\ [][NextJoin]_vars

\* the batches started so far
BatchesStarted ==
    IF pc = "batch" THEN batchStart \div BATCH_SIZE
                    ELSE batchStart \div BATCH_SIZE + 1

\* C36: at most BATCH_SIZE resolutions are in flight, and they all belong
\* to the batch that started last; when a batch is started every earlier
\* batch has been pushed and one delay has been awaited for each of them;
\* the delays are as many as the batches less one, so none follows the
\* last batch
C36_BatchesOfTen ==
    entry = "prepareBulkTransferRecipients" =>
        /\ Cardinality(inFlight) <= BATCH_SIZE
        /\ inFlight \subseteq (batchStart + 1)..(batchStart + BATCH_SIZE)
        /\ pc = "await" =>
              /\ Len(recipients) = batchStart
              /\ Len(waits) = batchStart \div BATCH_SIZE
              /\ DOMAIN settled \cup inFlight =
                    { batchStart + j : j \in BatchPositions(batchStart) }
        /\ pc = "delay" => inFlight = {} /\ Len(waits) = BatchesStarted - 1
        /\ outcome = "returned" =>
              /\ inFlight = {}
              /\ Len(waits) = IF walletAddresses = <<>> THEN 0
                               ELSE (Len(walletAddresses) - 1) \div BATCH_SIZE
        /\ \A k \in DOMAIN waits : waits[k] = DELAY_BETWEEN_BATCHES

\* the third batch of a run is in flight, after two delays, in a run in
\* which a promise settled before one for an earlier address of its batch
C36_Witness ==
    /\ entry = "prepareBulkTransferRecipients"
    /\ pc = "await"
    /\ batchStart = 2 * BATCH_SIZE
    /\ inFlight = {2 * BATCH_SIZE + 1}
    /\ Len(waits) = 2
    /\ reordered

\* C38: the plan prepareBulkTransferRecipients returns has one target for
\* each position of walletAddresses, for the address at that position,
\* whatever the order in which the promises of a batch settled
C38_OneTargetPerAddressInOrder ==
    (entry = "prepareBulkTransferRecipients" /\ outcome = "returned") =>
        /\ Len(result) = Len(walletAddresses)
        /\ \A k \in DOMAIN walletAddresses :
              result[k].walletAddress = walletAddresses[k]

\* a plan for two batches and a bit, one address of which failed, whose
\* promises did not settle in the order of the addresses
C38_Witness ==
    /\ entry = "prepareBulkTransferRecipients"
    /\ outcome = "returned"
    /\ reordered
    /\ Len(walletAddresses) = 2 * BATCH_SIZE + 1
    /\ Len(result) = 2 * BATCH_SIZE + 1
    /\ result[2].status = "failed"
    /\ result[1].status = "pending"

----------------------------------------------------------------------------
(* createBulkTransferTransaction(sender, recipients, nftType, nftIds) on    *)
(* the array prepareBulkTransferRecipients returned, as bulkTransferNFTs    *)
(* and the transfer form call it: the sender is a valid address and nftIds  *)
(* has one id for each recipient.  The calls of the transaction builder     *)
(* are calls of a library; each of them adds its command or throws.         *)

\* a command of txb: what it calls, and the position of the recipient (and
\* of the NFT) it was added for
Command(target, k) == [target |-> target, recipient |-> k]

\* the commands of the try block for a recipient, in the order they are
\* added: kiosk::place into the recipient's kiosk, or kiosk::new, the
\* transfer of the owner capability, and kiosk::place
TransferCommands(r, k) ==
    IF r.hasKiosk /\ r.kioskId # Absent /\ r.ownerCapId # Absent
      THEN << Command("0x2::kiosk::place", k) >>
      ELSE << Command("0x2::kiosk::new", k),
              Command("transferObjects", k),
              Command("0x2::kiosk::place", k) >>

\* what a call of the transaction builder throws
BuilderError ==
    [isError |-> TRUE, ref |-> "e5", message |-> "Invalid Sui Object id"]

\* no recipient is skipped
SkipsRecipientNever(r) == FALSE

\* if (recipient.status !== 'pending') continue
SkipsRecipient(r) == r.status # "pending"

\* recipient.status = 'failed'; recipient.error = error.message
MarkFailed(r, error) ==
    [r EXCEPT !.status = "failed", !.error = S(error.message)]

\* the transfer result bulkTransferNFTs builds from the recipients
TransferResult(rs) ==
    [totalRecipients |-> Len(rs),
     successful |-> Len(SelectSeq(rs, LAMBDA r : r.status = "pending")),
     failed |-> Len(SelectSeq(rs, LAMBDA r : r.status = "failed")),
     recipients |-> rs]

\* prepareBulkTransferRecipients has returned: the caller hands the array
\* to createBulkTransferTransaction, which creates txb
CallCreate ==
    /\ entry = "prepareBulkTransferRecipients"
    /\ pc = "done"
    /\ outcome = "returned"
    /\ entry' = "createBulkTransferTransaction"
    /\ pc' = "tx"
    /\ outcome' = "running"
    /\ result' = <<>>
    /\ txIdx' = 0
    /\ txOps' = <<>>
    /\ UNCHANGED <<thrown, input, walletAddresses, batchStart, recipients,
                   lookups, unreachable, joinVars, txRest>>

\* a recipient that is not pending: continue
TxSkip ==
    /\ entry = "createBulkTransferTransaction"
    /\ pc = "tx"
    /\ txIdx < Len(recipients)
    /\ SkipsRecipient(recipients[txIdx + 1])
    /\ txIdx' = txIdx + 1
    /\ UNCHANGED <<entry, pc, outcome, thrown, result, txOps, input,
                   walletAddresses, batchStart, recipients, lookups,
                   unreachable, joinVars, txRest>>

\* the try block for a pending recipient runs to its end
TxAdd ==
    /\ entry = "createBulkTransferTransaction"
    /\ pc = "tx"
    /\ txIdx < Len(recipients)
    /\ ~SkipsRecipient(recipients[txIdx + 1])
    /\ txOps' = txOps \o TransferCommands(recipients[txIdx + 1], txIdx + 1)
    /\ txIdx' = txIdx + 1
    /\ UNCHANGED <<entry, pc, outcome, thrown, result, input,
                   walletAddresses, batchStart, recipients, lookups,
                   unreachable, joinVars, txRest>>

\* a builder call of the try block throws after n commands were added: the
\* catch block marks the recipient failed
TxThrow(n) ==
    /\ entry = "createBulkTransferTransaction"
    /\ pc = "tx"
    /\ txIdx < Len(recipients)
    /\ ~SkipsRecipient(recipients[txIdx + 1])
    /\ LET r == recipients[txIdx + 1]
           cmds == TransferCommands(r, txIdx + 1)
       IN  /\ n < Len(cmds)
           /\ txOps' = txOps \o SubSeq(cmds, 1, n)
           /\ recipients' = [recipients EXCEPT
                               ![txIdx + 1] = MarkFailed(r, BuilderError)]
    /\ txIdx' = txIdx + 1
    /\ UNCHANGED <<entry, pc, outcome, thrown, result, input,
                   walletAddresses, batchStart, lookups, unreachable,
                   joinVars, txRest>>

\* the for loop is over: return txb, and bulkTransferNFTs builds its result
TransferReturn ==
    /\ entry = "createBulkTransferTransaction"
    /\ pc = "tx"
    /\ ~(txIdx < Len(recipients))
    /\ result' = TransferResult(recipients)
    /\ outcome' = "returned"
    /\ pc' = "done"
    /\ UNCHANGED <<entry, thrown, planVars, txRest>>

InitTransfer ==
    /\ build = "lib"
    /\ entry = "prepareBulkTransferRecipients"
    /\ pc = "batch"
    /\ input = <<>>
    /\ walletAddresses \in UNION { [1..n -> JoinAddresses] :
                                     n \in 0..MaxAddresses }
    /\ unreachable \in SUBSET {Id(2)}
    /\ batchStart = 0 /\ recipients = <<>> /\ lookups = <<>>
    /\ JoinIdle /\ TxIdle
    /\ RetryDefaults
    /\ outcome = "running"
    /\ thrown = Undefined
    /\ retVal = 0
    /\ pages = NoPages
    /\ PageIdle
    /\ CapIdle
    /\ result = <<>>
    /\ progress = <<>>
    /\ nCalls = 0
    /\ failures = 0
    /\ verdicts = <<>> /\ ProgIdle /\ NetIdle

NextTransfer ==
    \/ PlanBatch
    \/ PlanReturn
    \/ CallCreate
    \/ TxSkip
    \/ TxAdd
    \/ \E n \in 0..2 : TxThrow(n)
    \/ TransferReturn

SpecTransfer == InitTransfer /\ [][NextTransfer]_vars

\* the positions of the commands of txb added for recipient k
CommandsFor(ops, k) == { j \in DOMAIN ops : ops[j].recipient = k }

\* C37: a recipient is pending or failed; a step changes the status of a
\* recipient only from pending to failed; and once a recipient is failed
\* no step changes it or adds a command for it to the transaction
C37_FailedIsTerminal ==
    /\ [](\A k \in DOMAIN recipients :
             recipients[k].status \in {"pending", "failed"})
    /\ [][\A k \in DOMAIN recipients :
             /\ k \in DOMAIN recipients'
             /\ recipients'[k].status # recipients[k].status
                   => /\ recipients[k].status = "pending"
                      /\ recipients'[k].status = "failed"
             /\ recipients[k].status = "failed"
                   => /\ recipients'[k] = recipients[k]
                      /\ CommandsFor(txOps', k) = CommandsFor(txOps, k)]_vars

\* the transaction is built for a plan whose first recipient
\* prepareBulkTransferRecipients marked failed and whose second one failed
\* in the builder; the third one has its commands
C37_Witness ==
    /\ entry = "createBulkTransferTransaction"
    /\ outcome = "returned"
    /\ Len(recipients) = 3
    /\ recipients[1].status = "failed"
    /\ recipients[1].error = S("Invalid wallet address format")
    /\ CommandsFor(txOps, 1) = {}
    /\ recipients[2].status = "failed"
    /\ recipients[2].error = S(BuilderError.message)
    /\ recipients[3].status = "pending"
    /\ CommandsFor(txOps, 3) # {}

----------------------------------------------------------------------------
(* The callbacks of a progressive discovery that has rejected.              *)

\* C39: once discoverUserKiosksAndNFTsProgressive has rejected, no further
\* update is handed to onProgress.  This is the claim as written; the
\* stream that did not fail is not stopped by the rejection of Promise.all
\* and goes on calling onProgress.
C39_NoProgressAfterRejection ==
    [][(entry = "discoverUserKiosksAndNFTsProgressive" /\ outcome = "threw")
          => progress' = progress]_vars

----------------------------------------------------------------------------
(* What a progressive discovery returns, and what it streamed.              *)

RECURSIVE DeliveredNFTs(_)
\* the item batches handed to onProgress, one after the other
DeliveredNFTs(updates) ==
    IF updates = <<>> THEN <<>>
    ELSE (IF updates[1].kind = "nfts" THEN updates[1].items ELSE <<>>)
             \o DeliveredNFTs(Tail(updates))

\* C40: a progressive discovery that returns, returns as items the batches
\* it handed to onProgress, in the order they were handed over, and as
\* kiosks the kiosks of the done update, which is the last update
C40_ReturnsWhatWasStreamed ==
    (entry = "discoverUserKiosksAndNFTsProgressive" /\ outcome = "returned")
        => /\ result.nfts = DeliveredNFTs(progress)
           /\ progress[Len(progress)].kind = "done"
           /\ result.kiosks = progress[Len(progress)].items
           /\ \A k \in 1..(Len(progress) - 1) : progress[k].kind # "done"

\* a run that streamed a batch of a kiosk before a batch of the wallet and
\* returned both
C40_Witness ==
    /\ entry = "discoverUserKiosksAndNFTsProgressive"
    /\ outcome = "returned"
    /\ \E j, k \in DOMAIN progress :
          /\ j < k
          /\ progress[j].kind = "nfts" /\ progress[k].kind = "nfts"
          /\ progress[j].items[1].kioskId # WALLET
          /\ progress[k].items[1].kioskId = WALLET
    /\ result.kiosks # <<>>

====
